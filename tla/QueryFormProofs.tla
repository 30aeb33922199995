---------------------------- MODULE QueryFormProofs ----------------------------
(***************************************************************************)
(* Proofs about the form of a query, for any facets, dates, hours, areas   *)
(* and options, and however much the user does.                            *)
(***************************************************************************)
EXTENDS QueryPage, SequenceTheorems, TLAPS

-----------------------------------------------------------------------------
(* Parameters, as every event leaves them. *)

Names == {"txt", "lists", "simple", "advanced", "advancedFilter", "startDate", "endDate",
          "area", "outputFormat", "table", "amount"}

Facet == UNION {Facets[b] : b \in Box}

\* Parameters with an interval that need not be in order.
Formed(p) ==
  /\ p = [n \in Names |-> p[n]]
  /\ p.startDate \in Int /\ p.endDate \in Int
  /\ p.lists = [b \in Box |-> p.lists[b]]
  /\ p.txt \in [Box -> Seq(Facet)]

Ordered(p) == Formed(p) /\ p.startDate <= p.endDate

\* The query of the facets in the text of the boxes, and that of other lists.
WithLists(p, ls) == [p EXCEPT !.lists = ls]
OfTexts(p) == Url(WithLists(p, [b \in Box |-> Lists(b, p.txt[b])]))

(* A page without stored parameters begins with ten minutes (app-service.js:56-117).       *)
LEMMA FreshOrdered ==
  ASSUME NEW h \in Hours
  PROVE  Ordered(Fresh(h))
<1>1. h \in Int /\ TenMinutes \in Nat
  BY FormAssumption
<1>2. NoFacets \in [Box -> Seq(Facet)]
  BY DEF NoFacets
<1>3. Fresh(h) = [n \in Names |-> Fresh(h)[n]]
  BY DEF Fresh, Names
<1>4. /\ Fresh(h).startDate = h /\ Fresh(h).endDate = h + TenMinutes
      /\ Fresh(h).txt = NoFacets /\ Fresh(h).lists = [b \in Box |-> Lists(b, <<>>)]
  BY DEF Fresh
<1>5. Fresh(h).lists = [b \in Box |-> Fresh(h).lists[b]]
  BY <1>4
<1> QED BY <1>1, <1>2, <1>3, <1>4, <1>5 DEF Ordered, Formed

(* An interval that a change has turned around is put in order again, because it was in  *)
(* order before and at most one end of it has changed (app-ctrl.js:257-284).             *)
LEMMA ValidateOrders ==
  ASSUME Ordered(params), NEW p, Formed(p)
  PROVE  Ordered(validateTimeInterval(p))
<1>1. TenMinutes \in Nat
  BY FormAssumption
<1>2. CASE p.startDate <= p.endDate
  BY <1>2 DEF validateTimeInterval, Ordered
<1>3. CASE ~(p.startDate <= p.endDate) /\ p.startDate # params.startDate
  <2> DEFINE q == [p EXCEPT !.endDate = p.startDate + TenMinutes]
  <2>1. validateTimeInterval(p) = q
    BY <1>3 DEF validateTimeInterval
  <2>2. /\ q = [n \in Names |-> q[n]] /\ q.lists = p.lists /\ q.txt = p.txt
        /\ q.startDate = p.startDate /\ q.endDate = p.startDate + TenMinutes
    BY DEF Formed, Names
  <2> HIDE DEF q
  <2>3. /\ p.startDate \in Int /\ p.lists = [b \in Box |-> p.lists[b]]
        /\ p.txt \in [Box -> Seq(Facet)]
    BY DEF Formed
  <2>4. Formed(q)
    <3>1. q.startDate \in Int /\ q.endDate \in Int
      BY <1>1, <2>2, <2>3
    <3> QED BY <2>2, <2>3, <3>1, Zenon DEF Formed
  <2>5. q.startDate <= q.endDate
    BY <1>1, <2>2, <2>3
  <2> QED BY <2>1, <2>4, <2>5 DEF Ordered
<1>4. CASE ~(p.startDate <= p.endDate) /\ p.startDate = params.startDate
  <2> DEFINE q == [p EXCEPT !.startDate = p.endDate - TenMinutes]
  <2>1. p.endDate # params.endDate
    BY <1>4 DEF Ordered, Formed
  <2>2. validateTimeInterval(p) = q
    BY <1>4, <2>1 DEF validateTimeInterval
  <2>3. /\ q = [n \in Names |-> q[n]] /\ q.lists = p.lists /\ q.txt = p.txt
        /\ q.endDate = p.endDate /\ q.startDate = p.endDate - TenMinutes
    BY DEF Formed, Names
  <2> HIDE DEF q
  <2>4. /\ p.endDate \in Int /\ p.lists = [b \in Box |-> p.lists[b]]
        /\ p.txt \in [Box -> Seq(Facet)]
    BY DEF Formed
  <2>5. Formed(q)
    <3>1. q.startDate \in Int /\ q.endDate \in Int
      BY <1>1, <2>3, <2>4
    <3> QED BY <2>3, <2>4, <3>1, Zenon DEF Formed
  <2>6. q.startDate <= q.endDate
    BY <1>1, <2>3, <2>4
  <2> QED BY <2>2, <2>5, <2>6 DEF Ordered
<1> QED BY <1>2, <1>3, <1>4

(* What the boxes hold is put into the parameters and nothing else is changed            *)
(* (app-ctrl.js:143-251, 485-490).                                                       *)
LEMMA RecomputedFields ==
  ASSUME NEW p, Formed(p), facets \in [Box -> Seq(Facet)], loose \in [Box -> Seq(Facet)]
  PROVE  /\ Formed(Recomputed(p))
         /\ Recomputed(p).txt = [b \in Box |-> facets[b] \o loose[b]]
         /\ Recomputed(p).lists = [b \in Box |-> Lists(b, facets[b])]
         /\ \A n \in Names \ {"txt", "lists"} : Recomputed(p)[n] = p[n]
<1> DEFINE p1 == updateFilter("message", p)
           p2 == updateFilter("target", p1)
           p3 == updateFilter("source", p2)
<1>1. ASSUME NEW q, Formed(q), NEW b \in Box
      PROVE  /\ Formed(updateFilter(b, q))
             /\ updateFilter(b, q).txt = [q.txt EXCEPT ![b] = facets[b] \o loose[b]]
             /\ updateFilter(b, q).lists = [q.lists EXCEPT ![b] = Lists(b, facets[b])]
             /\ \A n \in Names \ {"txt", "lists"} : updateFilter(b, q)[n] = q[n]
  <2> DEFINE r == updateFilter(b, q)
             t == facets[b] \o loose[b]
             l == Lists(b, facets[b])
  <2>1. t \in Seq(Facet)
    BY <1>1
  <2> HIDE DEF t, l
  <2>2. r = [q EXCEPT !.txt[b] = t, !.lists[b] = l]
    BY DEF updateFilter, t, l
  <2>3. DOMAIN q = Names
    BY <1>1 DEF Formed
  <2> HIDE DEF r
  <2>4. r = [n \in Names |-> r[n]]
    BY <2>2, <2>3
  <2>5. r.txt = [q.txt EXCEPT ![b] = t] /\ r.lists = [q.lists EXCEPT ![b] = l]
    BY <2>2, <2>3 DEF Names
  <2>6. \A n \in Names \ {"txt", "lists"} : r[n] = q[n]
    BY <2>2, <2>3
  <2>7. r.startDate = q.startDate /\ r.endDate = q.endDate
    BY <2>6 DEF Names
  <2>8. r.txt \in [Box -> Seq(Facet)] /\ r.lists = [c \in Box |-> r.lists[c]]
    BY <1>1, <2>1, <2>5 DEF Formed
  <2>9. Formed(r)
    BY <1>1, <2>4, <2>7, <2>8 DEF Formed
  <2> QED BY <2>5, <2>6, <2>9 DEF r, t, l
<1>2. Box = {"source", "target", "message"}
  BY DEF Box
<1>3. Recomputed(p) = p3
  BY DEF Recomputed
<1>4. /\ Formed(p1) /\ p1.txt = [p.txt EXCEPT !["message"] = facets["message"] \o loose["message"]]
      /\ p1.lists = [p.lists EXCEPT !["message"] = Lists("message", facets["message"])]
      /\ \A n \in Names \ {"txt", "lists"} : p1[n] = p[n]
  BY <1>1, <1>2
<1> HIDE DEF p1
<1>5. /\ Formed(p2) /\ p2.txt = [p1.txt EXCEPT !["target"] = facets["target"] \o loose["target"]]
      /\ p2.lists = [p1.lists EXCEPT !["target"] = Lists("target", facets["target"])]
      /\ \A n \in Names \ {"txt", "lists"} : p2[n] = p1[n]
  BY <1>1, <1>2, <1>4
<1> HIDE DEF p2
<1>6. /\ Formed(p3) /\ p3.txt = [p2.txt EXCEPT !["source"] = facets["source"] \o loose["source"]]
      /\ p3.lists = [p2.lists EXCEPT !["source"] = Lists("source", facets["source"])]
      /\ \A n \in Names \ {"txt", "lists"} : p3[n] = p2[n]
  BY <1>1, <1>2, <1>5
<1> HIDE DEF p3
<1>7. DOMAIN p.txt = Box /\ DOMAIN p.lists = Box
  BY DEF Formed
<1>8. p3.txt = [b \in Box |-> facets[b] \o loose[b]]
  <2>1. /\ p3.txt \in [Box -> Seq(Facet)]
        /\ DOMAIN p1.txt = Box /\ DOMAIN p2.txt = Box
    BY <1>4, <1>5, <1>6 DEF Formed
  <2>2. \A b \in Box : p3.txt[b] = facets[b] \o loose[b]
    <3>1. p3.txt["source"] = facets["source"] \o loose["source"]
      BY <1>2, <1>6, <2>1, Zenon
    <3>2. p3.txt["target"] = facets["target"] \o loose["target"]
      BY <1>2, <1>5, <1>6, <2>1
    <3>3. p3.txt["message"] = facets["message"] \o loose["message"]
      BY <1>2, <1>4, <1>5, <1>6, <1>7, <2>1
    <3> QED BY <1>2, <3>1, <3>2, <3>3, Zenon
  <2> QED BY <2>1, <2>2
<1>9. p3.lists = [b \in Box |-> Lists(b, facets[b])]
  <2>1. /\ p3.lists = [b \in Box |-> p3.lists[b]]
        /\ DOMAIN p1.lists = Box /\ DOMAIN p2.lists = Box
    BY <1>4, <1>5, <1>6 DEF Formed
  <2>2. \A b \in Box : p3.lists[b] = Lists(b, facets[b])
    <3>1. p3.lists["source"] = Lists("source", facets["source"])
      BY <1>2, <1>6, <2>1, Zenon
    <3>2. p3.lists["target"] = Lists("target", facets["target"])
      BY <1>2, <1>5, <1>6, <2>1
    <3>3. p3.lists["message"] = Lists("message", facets["message"])
      BY <1>2, <1>4, <1>5, <1>6, <1>7, <2>1
    <3> QED BY <1>2, <3>1, <3>2, <3>3, Zenon
  <2> QED BY <2>1, <2>2
<1>10. \A n \in Names \ {"txt", "lists"} : p3[n] = p[n]
  BY <1>4, <1>5, <1>6
<1> QED BY <1>3, <1>6, <1>8, <1>9, <1>10

(* A query depends on the lists, not on the texts they were made of                      *)
(* (app-ctrl.js:366-480).                                                                *)
LEMMA SameUrl ==
  ASSUME NEW p, NEW q, \A n \in Names \ {"txt"} : p[n] = q[n]
  PROVE  Url(p) = Url(q)
<1>1. /\ p.lists = q.lists /\ p.simple = q.simple /\ p.advanced = q.advanced
      /\ p.advancedFilter = q.advancedFilter /\ p.area = q.area /\ p.table = q.table
      /\ p.startDate = q.startDate /\ p.endDate = q.endDate
      /\ p.outputFormat = q.outputFormat /\ p.amount = q.amount
  BY DEF Names
<1> QED BY <1>1, Zenon DEF Url

LEMMA WithListsFields ==
  ASSUME NEW p, Formed(p), NEW ls
  PROVE  WithLists(p, ls).lists = ls
         /\ \A n \in Names \ {"lists"} : WithLists(p, ls)[n] = p[n]
BY DEF Formed, WithLists, Names

(* The address put together from the boxes is the query the form shows                   *)
(* (app-ctrl.js:485-490).                                                                *)
LEMMA RecomputedIsShown ==
  ASSUME Formed(params), facets \in [Box -> Seq(Facet)], loose \in [Box -> Seq(Facet)]
  PROVE  Url(Recomputed(params)) = Shown
<1> DEFINE ls == [b \in Box |-> Lists(b, facets[b])]
<1>1. Shown = Url(WithLists(params, ls))
  BY DEF Shown, WithLists
<1> HIDE DEF ls
<1>2. \A n \in Names \ {"txt"} : Recomputed(params)[n] = WithLists(params, ls)[n]
  <2>1. Recomputed(params).lists = ls /\ WithLists(params, ls).lists = ls
    BY RecomputedFields, WithListsFields DEF ls
  <2>2. \A n \in Names \ {"txt", "lists"} : /\ Recomputed(params)[n] = params[n]
                                            /\ WithLists(params, ls)[n] = params[n]
    <3>1. \A n \in Names \ {"txt", "lists"} : Recomputed(params)[n] = params[n]
      BY RecomputedFields
    <3>2. \A n \in Names \ {"lists"} : WithLists(params, ls)[n] = params[n]
      BY WithListsFields
    <3> QED BY <3>1, <3>2
  <2> QED BY <2>1, <2>2
<1> DEFINE r == Recomputed(params)
           w == WithLists(params, ls)
<1>3. \A n \in Names \ {"txt"} : r[n] = w[n]
  BY <1>2
<1> HIDE DEF r, w
<1>4. Url(r) = Url(w)
  BY <1>3, SameUrl
<1> QED BY <1>1, <1>4 DEF r, w

(* A query that does not depend on the lists of the parameters does not depend on the    *)
(* parameters' texts either.                                                             *)
LEMMA SameShown ==
  ASSUME NEW p, NEW q, Formed(p), Formed(q), NEW ls,
         \A n \in Names \ {"txt", "lists"} : p[n] = q[n]
  PROVE  Url(WithLists(p, ls)) = Url(WithLists(q, ls))
<1> DEFINE v == WithLists(p, ls)
           w == WithLists(q, ls)
<1>1. v.lists = ls /\ \A n \in Names \ {"lists"} : v[n] = p[n]
  BY WithListsFields
<1>2. w.lists = ls /\ \A n \in Names \ {"lists"} : w[n] = q[n]
  BY WithListsFields
<1> HIDE DEF v, w
<1>3. \A n \in Names \ {"txt"} : v[n] = w[n]
  BY <1>1, <1>2
<1>4. Url(v) = Url(w)
  BY <1>3, SameUrl
<1> QED BY <1>4 DEF v, w

-----------------------------------------------------------------------------
(* The inductive invariant. *)

BoxesFormed == facets \in [Box -> Seq(Facet)] /\ loose \in [Box -> Seq(Facet)]

\* The parameters stored ask the query that was sent, by their lists and, unless an input
\* held text, by their texts.
Kept ==
  stored # <<>> =>
    /\ Ordered(stored[1])
    /\ Url(stored[1]) = savedUrl[1]
    /\ ~savedLoose => OfTexts(stored[1]) = savedUrl[1]

\* So do those of a page that has loaded them, also when its boxes are set up from the texts.
ShownAgain ==
  restored =>
    /\ stored # <<>>
    /\ ~ready => params = stored[1] /\ downloadUrl = Url(params)
    /\ ready /\ ~savedLoose => Shown = savedUrl[1]

IInv == Ordered(params) /\ BoxesFormed /\ Kept /\ ShownAgain

LEMMA NoFacetsFormed == NoFacets \in [Box -> Seq(Facet)]
BY DEF NoFacets

LEMMA FacetOf ==
  ASSUME NEW b \in Box, NEW f \in Facets[b]
  PROVE  f \in Facet
BY DEF Facet

LEMMA Initially == Init => IInv
<1> SUFFICES ASSUME Init PROVE IInv
  OBVIOUS
<1>1. Ordered(params)
  BY FreshOrdered DEF Init
<1> QED BY <1>1, NoFacetsFormed DEF Init, IInv, BoxesFormed, Kept, ShownAgain

(* Events that change parameters in a digest and end what was restored.                  *)
LEMMA DigestStep ==
  ASSUME IInv, NEW p, Formed(p), Digest(p), BoxesFormed', UNCHANGED storage, restored' = FALSE
  PROVE  IInv'
<1>1. Ordered(params')
  BY ValidateOrders DEF Digest, IInv
<1>2. Kept'
  BY DEF IInv, Kept, storage
<1> QED BY <1>1, <1>2 DEF IInv, ShownAgain

LEMMA ChangeStep ==
  ASSUME IInv, NEW p, Formed(p), Change(p)
  PROVE  IInv'
BY DigestStep DEF Change, boxes, IInv, BoxesFormed

(* A change of one field leaves parameters of which the interval may be turned around.   *)
LEMMA FieldStep ==
  ASSUME IInv, \/ \E on \in BOOLEAN : useAdvancedFilter(on)
               \/ \E v \in Text : TypeFilter(v)
               \/ PickDate \/ SetField
  PROVE  IInv'
<1>1. /\ params = [n \in Names |-> params[n]] /\ params.startDate \in Int /\ params.endDate \in Int
      /\ params.lists = [b \in Box |-> params.lists[b]] /\ params.txt \in [Box -> Seq(Facet)]
  BY DEF IInv, Ordered, Formed
<1>2. \A d \in Dates : d \in Int
  BY FormAssumption
<1>3. ASSUME NEW on, NEW off
      PROVE  Formed([params EXCEPT !.simple = off, !.advanced = on])
  BY <1>1 DEF Formed, Names
<1>4. ASSUME NEW v
      PROVE  /\ Formed([params EXCEPT !.advancedFilter = v]) /\ Formed([params EXCEPT !.area = v])
             /\ Formed([params EXCEPT !.outputFormat = v]) /\ Formed([params EXCEPT !.table = v])
             /\ Formed([params EXCEPT !.amount = v])
  BY <1>1 DEF Formed, Names
<1>5. ASSUME NEW d \in Dates
      PROVE  Formed([params EXCEPT !.startDate = d]) /\ Formed([params EXCEPT !.endDate = d])
  BY <1>1, <1>2 DEF Formed, Names
<1>6. CASE \E on \in BOOLEAN : useAdvancedFilter(on)
  BY <1>3, <1>6, ChangeStep DEF useAdvancedFilter
<1>7. CASE \E v \in Text : TypeFilter(v)
  BY <1>4, <1>7, ChangeStep DEF TypeFilter
<1>8. CASE PickDate
  BY <1>5, <1>8, ChangeStep DEF PickDate
<1>9. CASE SetField
  BY <1>4, <1>9, ChangeStep DEF SetField
<1> QED BY <1>6, <1>7, <1>8, <1>9

(* What is done in a box.                                                                *)
LEMMA BoxStep ==
  ASSUME IInv, NEW b \in Box, Search(b) \/ \E f \in Facets[b] : TypeInBox(b, f) \/ LeaveFacet(b, f)
  PROVE  IInv'
<1>1. facets \in [Box -> Seq(Facet)] /\ loose \in [Box -> Seq(Facet)]
  BY DEF IInv, BoxesFormed
<1>2. UNCHANGED storage /\ restored' = FALSE
  BY DEF Search, TypeInBox, LeaveFacet
<1>3. Kept' /\ ShownAgain'
  BY <1>2 DEF IInv, Kept, ShownAgain, storage
<1>4. CASE Search(b)
  <2>1. PICK fs \in Seq(Facet) : SearchFor(b, fs)
    <3>1. facets[b] \in Seq(Facet) /\ loose[b] \in Seq(Facet)
      BY <1>1
    <3>2. facets[b] # <<>> => Tail(facets[b]) \in Seq(Facet)
      BY <3>1
    <3>3. facets[b] \o loose[b] \in Seq(Facet)
      BY <3>1
    <3>4. facets[b] # <<>> => Tail(facets[b]) \o loose[b] \in Seq(Facet)
      BY <3>1, <3>2
    <3>5. <<>> \in Seq(Facet)
      OBVIOUS
    <3> QED BY <1>4, <3>3, <3>4, <3>5 DEF Search
  <2>2. BoxesFormed'
    BY <1>1, <2>1 DEF SearchFor, BoxesFormed
  <2>3. Ordered(params')
    BY <2>1 DEF SearchFor, IInv, Ordered, Formed, Names
  <2> QED BY <1>3, <2>2, <2>3 DEF IInv
<1>5. ASSUME NEW f \in Facets[b], TypeInBox(b, f) \/ LeaveFacet(b, f)
      PROVE  IInv'
  <2>1. f \in Facet
    BY <1>5, FacetOf
  <2>2. params' = params
    BY <1>5 DEF TypeInBox, LeaveFacet
  <2>3. CASE TypeInBox(b, f)
    BY <1>1, <1>3, <2>1, <2>2, <2>3 DEF TypeInBox, IInv, BoxesFormed
  <2>4. CASE LeaveFacet(b, f)
    <3>1. loose' \in [Box -> Seq(Facet)]
      BY <1>1, <2>4 DEF LeaveFacet
    <3>2. facets' \in [Box -> Seq(Facet)]
      <4>1. CASE facets' = [facets EXCEPT ![b] = Append(@, f)]
        BY <1>1, <2>1, <4>1
      <4>2. CASE \E i \in DOMAIN facets[b] : facets' = [facets EXCEPT ![b][i] = f]
        <5>1. PICK i \in DOMAIN facets[b] : facets' = [facets EXCEPT ![b][i] = f]
          BY <4>2
        <5>2. [facets[b] EXCEPT ![i] = f] \in Seq(Facet)
          BY <1>1, <2>1, <5>1, ExceptSeq
        <5>3. facets' = [facets EXCEPT ![b] = [facets[b] EXCEPT ![i] = f]]
          BY <5>1
        <5> QED BY <1>1, <5>2, <5>3
      <4> QED BY <2>4, <4>1, <4>2 DEF LeaveFacet
    <3> QED BY <1>3, <2>2, <3>1, <3>2 DEF IInv, BoxesFormed
  <2> QED BY <1>5, <2>3, <2>4
<1> QED BY <1>4, <1>5

(* A query is sent, and the parameters stored or not.                                    *)
LEMMA SendStep ==
  ASSUME IInv, execute \/ openInAisStore
  PROVE  IInv' /\ sent' = <<Shown>>
<1>1. /\ params' = Recomputed(params) /\ downloadUrl' = Url(params') /\ sent' = <<downloadUrl'>>
      /\ facets' = facets /\ loose' = loose /\ ready' = ready /\ ready
  BY DEF execute, openInAisStore, boxes
<1>2. Formed(params) /\ facets \in [Box -> Seq(Facet)] /\ loose \in [Box -> Seq(Facet)]
  BY DEF IInv, Ordered, BoxesFormed
<1>3. /\ Formed(params')
      /\ params'.txt = [b \in Box |-> facets[b] \o loose[b]]
      /\ params'.lists = [b \in Box |-> Lists(b, facets[b])]
      /\ \A n \in Names \ {"txt", "lists"} : params'[n] = params[n]
  BY <1>1, <1>2, RecomputedFields
<1>4. Url(params') = Shown
  BY <1>1, <1>2, RecomputedIsShown
<1>5. Ordered(params')
  <2>1. params'.startDate = params.startDate /\ params'.endDate = params.endDate
    BY <1>3 DEF Names
  <2> QED BY <1>3, <2>1 DEF Ordered, IInv
<1> DEFINE ls == [b \in Box |-> Lists(b, facets[b])]
<1>6. Shown' = Shown
  <2>1. Shown = Url(WithLists(params, ls)) /\ Shown' = Url(WithLists(params', ls))
    BY <1>1 DEF Shown, WithLists
  <2> HIDE DEF ls
  <2>2. Url(WithLists(params', ls)) = Url(WithLists(params, ls))
    BY <1>2, <1>3, SameShown
  <2> QED BY <2>1, <2>2
<1>7. BoxesFormed'
  BY <1>1, <1>2 DEF BoxesFormed
<1>8. CASE UNCHANGED <<storage, restored>>
  <2>1. Kept'
    BY <1>8 DEF IInv, Kept, storage
  <2>2. ShownAgain'
    BY <1>1, <1>6, <1>8 DEF IInv, ShownAgain, storage
  <2> QED BY <1>1, <1>4, <1>5, <1>7, <2>1, <2>2 DEF IInv
<1>9. CASE /\ stored' = <<params'>> /\ savedUrl' = sent' /\ restored' = TRUE
           /\ savedLoose' = (\E b \in Box : loose[b] # <<>>)
  <2>1. stored'[1] = params' /\ savedUrl'[1] = Url(params') /\ stored' # <<>>
    BY <1>1, <1>9
  <2>2. ~savedLoose' => OfTexts(params') = Url(params')
    <3> SUFFICES ASSUME ~savedLoose' PROVE OfTexts(params') = Url(params')
      OBVIOUS
    <3>1. \A b \in Box : loose[b] = <<>>
      BY <1>9
    <3>2. \A b \in Box : params'.txt[b] = facets[b]
      BY <1>2, <1>3, <3>1
    <3>3. [b \in Box |-> Lists(b, params'.txt[b])] = ls
      BY <3>2
    <3>4. OfTexts(params') = Url(WithLists(params', ls))
      BY <3>3 DEF OfTexts
    <3>5. Shown' = Url(WithLists(params', ls))
      BY <1>1 DEF Shown, WithLists
    <3> QED BY <1>4, <1>6, <3>4, <3>5
  <2>3. Kept'
    BY <1>5, <2>1, <2>2 DEF Kept
  <2>4. ShownAgain'
    BY <1>1, <1>4, <1>6, <2>1 DEF ShownAgain
  <2> QED BY <1>1, <1>4, <1>5, <1>7, <2>3, <2>4 DEF IInv
<1>10. \/ UNCHANGED <<storage, restored>>
       \/ /\ stored' = <<params'>> /\ savedUrl' = sent' /\ restored' = TRUE
          /\ savedLoose' = (\E b \in Box : loose[b] # <<>>)
  BY DEF execute, openInAisStore
<1> QED BY <1>8, <1>9, <1>10

(* The boxes are set up, and show the query that was stored.                             *)
LEMMA ReadyStep ==
  ASSUME IInv, FiltersReady
  PROVE  IInv'
<1>1. /\ ~ready /\ ready' = TRUE /\ facets' = params.txt
      /\ UNCHANGED <<params, loose, downloadUrl, stored, savedUrl, savedLoose, restored>>
  BY DEF FiltersReady, storage
<1>2. BoxesFormed'
  BY <1>1 DEF IInv, Ordered, Formed, BoxesFormed
<1>3. Kept'
  BY <1>1 DEF IInv, Kept
<1>4. ShownAgain'
  <2> SUFFICES ASSUME restored, ~savedLoose PROVE stored # <<>> /\ Shown' = savedUrl[1]
    BY <1>1, Zenon DEF ShownAgain, IInv
  <2>1. stored # <<>> /\ params = stored[1] /\ OfTexts(stored[1]) = savedUrl[1]
    BY <1>1 DEF IInv, ShownAgain, Kept
  <2>2. Shown' = OfTexts(params)
    BY <1>1 DEF Shown, OfTexts, WithLists
  <2> QED BY <2>1, <2>2
<1> QED BY <1>1, <1>2, <1>3, <1>4 DEF IInv

LEMMA LoadWithStep ==
  ASSUME NEW p, Ordered(p), LoadWith(p), Kept', restored' => stored' # <<>> /\ p = stored'[1]
  PROVE  IInv'
<1>1. params' = p /\ downloadUrl' = Url(p) /\ ready' = FALSE
  BY DEF LoadWith
<1>2. BoxesFormed'
  BY NoFacetsFormed DEF LoadWith, BoxesFormed
<1>3. ShownAgain'
  BY <1>1 DEF ShownAgain
<1> QED BY <1>1, <1>2, <1>3 DEF IInv

LEMMA OtherStep ==
  ASSUME IInv, Enable \/ clear \/ Load \/ reset \/ UNCHANGED vars
  PROVE  IInv'
<1>1. CASE Enable \/ UNCHANGED vars
  <2>1. UNCHANGED <<params, facets, loose, ready, downloadUrl, stored, savedUrl, savedLoose, restored>>
    BY <1>1 DEF Enable, vars, boxes, storage
  <2> QED BY <2>1 DEF IInv, BoxesFormed, Kept, ShownAgain, Shown
<1>2. CASE clear
  <2>1. PICK h \in Hours : Digest(Fresh(h))
    BY <1>2 DEF clear
  <2>2. Formed(Fresh(h)) /\ BoxesFormed'
    BY <1>2, FreshOrdered, NoFacetsFormed DEF clear, Ordered, BoxesFormed
  <2> QED BY <1>2, <2>1, <2>2, DigestStep DEF clear
<1>3. CASE Load
  <2>1. Kept'
    BY <1>3 DEF Load, storage, IInv, Kept
  <2>2. CASE stored # <<>>
    BY <1>3, <2>1, <2>2, LoadWithStep DEF Load, storage, IInv, Kept
  <2>3. CASE stored = <<>>
    <3>1. restored' = FALSE
      BY <1>3, <2>3 DEF Load
    <3>2. PICK h \in Hours : LoadWith(Fresh(h))
      BY <1>3, <2>3 DEF Load
    <3> QED BY <2>1, <3>1, <3>2, FreshOrdered, LoadWithStep
  <2> QED BY <2>2, <2>3
<1>4. CASE reset
  <2>1. Kept' /\ restored' = FALSE
    BY <1>4 DEF reset, Kept
  <2>2. PICK h \in Hours : LoadWith(Fresh(h))
    BY <1>4 DEF reset
  <2> QED BY <2>1, <2>2, FreshOrdered, LoadWithStep
<1> QED BY <1>1, <1>2, <1>3, <1>4

LEMMA Inductive == IInv /\ [Next]_vars => IInv'
<1> SUFFICES ASSUME IInv, [Next]_vars PROVE IInv'
  OBVIOUS
<1>1. CASE Typing
  BY <1>1, BoxStep, FieldStep DEF Typing
<1>2. CASE \E v \in Text : TypeFilter(v)
  BY <1>2, FieldStep
<1>3. CASE Sending
  BY <1>3, SendStep DEF Sending
<1>4. CASE FiltersReady
  BY <1>4, ReadyStep
<1>5. CASE Enable \/ clear \/ Load \/ reset \/ UNCHANGED vars
  BY <1>5, OtherStep
<1> QED BY <1>1, <1>2, <1>3, <1>4, <1>5 DEF Next

LEMMA FormSteps == Spec => []IInv
BY Initially, Inductive, PTL DEF Spec

-----------------------------------------------------------------------------
(* Whatever else happens on the page, the form does nothing that is not its own: the     *)
(* page implements the form (app-ctrl.js:9-548).                                         *)
THEOREM PageIsForm == PageSpec => Spec
<1>1. PageInit => Init
  BY DEF PageInit
<1>2. [PageNext]_pageVars => [Next]_vars
  BY DEF PageNext, EditFilter, FilterTimer, FilterAnswer, ClearForm, LoadPage, pageVars, Next
<1> QED BY <1>1, <1>2, PTL DEF PageSpec, Spec

(* The interval of the form is in order after every event (app-ctrl.js:257-284).         *)
THEOREM IntervalStaysOrdered == PageSpec => []IntervalOrdered
<1>1. IInv => IntervalOrdered
  BY DEF IInv, Ordered, IntervalOrdered
<1> QED BY PageIsForm, FormSteps, <1>1, PTL

(* No query is sent but the one the form shows (app-ctrl.js:485-518, 534-547).            *)
THEOREM QuerySentIsShown == PageSpec => SentIsShown
<1>1. IInv /\ [Next]_vars => [sent' # sent => sent' = <<Shown>>]_vars
  <2> SUFFICES ASSUME IInv, Next, sent' # sent PROVE sent' = <<Shown>>
    OBVIOUS
  <2>1. Sending
    BY DEF Next, Typing, Search, TypeInBox, LeaveFacet, Change, PickDate, SetField, TypeFilter,
           useAdvancedFilter, Enable, FiltersReady, clear, Load, reset
  <2> QED BY <2>1, SendStep DEF Sending
<1> QED BY PageIsForm, FormSteps, <1>1, PTL DEF Spec, SentIsShown

(* A page that is loaded again asks the query sent last (app-service.js:43-50,            *)
(* app-ctrl.js:19, 113-115, 511).                                                        *)
THEOREM ReloadAsksAgain == PageSpec => []ReloadRestores
<1>1. IInv => ReloadRestores
  BY DEF IInv, Kept, ShownAgain, ReloadRestores
<1> QED BY PageIsForm, FormSteps, <1>1, PTL

-----------------------------------------------------------------------------
(* What the directive that validates the filter sees of the page.                        *)

LEMMA FilterStays ==
  ASSUME IInv, Typing \/ Sending \/ Enable \/ FiltersReady
  PROVE  params'.advancedFilter = params.advancedFilter
<1>1. DOMAIN params = Names /\ Formed(params) /\ BoxesFormed
  BY DEF IInv, Ordered, Formed
<1>2. ASSUME NEW p, Formed(p), p.advancedFilter = params.advancedFilter, Digest(p)
      PROVE  params'.advancedFilter = params.advancedFilter
  <2>1. DOMAIN p = Names
    BY <1>2 DEF Formed
  <2>2. validateTimeInterval(p).advancedFilter = p.advancedFilter
    BY <2>1 DEF validateTimeInterval, Names
  <2> QED BY <1>2, <2>2 DEF Digest
<1>3. CASE Sending
  <2>1. params' = Recomputed(params)
    BY <1>3 DEF Sending, execute, openInAisStore
  <2>2. \A n \in Names \ {"txt", "lists"} : Recomputed(params)[n] = params[n]
    BY <1>1, RecomputedFields DEF BoxesFormed
  <2> QED BY <2>1, <2>2 DEF Names
<1>4. CASE Enable \/ FiltersReady
  BY <1>4 DEF Enable, FiltersReady
<1>5. CASE \E b \in Box : Search(b) \/ \E f \in Facets[b] : TypeInBox(b, f) \/ LeaveFacet(b, f)
  <2>1. PICK b \in Box : Search(b) \/ \E f \in Facets[b] : TypeInBox(b, f) \/ LeaveFacet(b, f)
    BY <1>5
  <2>2. CASE Search(b)
    <3>1. PICK fs : SearchFor(b, fs)
      BY <2>2 DEF Search
    <3> QED BY <1>1, <3>1 DEF SearchFor, Names
  <2>3. CASE \E f \in Facets[b] : TypeInBox(b, f) \/ LeaveFacet(b, f)
    BY <2>3 DEF TypeInBox, LeaveFacet
  <2> QED BY <2>1, <2>2, <2>3
<1>6. CASE PickDate \/ SetField \/ \E on \in BOOLEAN : useAdvancedFilter(on)
  <2>1. ASSUME NEW d \in Dates
        PROVE  /\ Formed([params EXCEPT !.startDate = d]) /\ Formed([params EXCEPT !.endDate = d])
               /\ [params EXCEPT !.startDate = d].advancedFilter = params.advancedFilter
               /\ [params EXCEPT !.endDate = d].advancedFilter = params.advancedFilter
    BY <1>1, FormAssumption DEF Formed, Names
  <2>2. ASSUME NEW v, NEW w
        PROVE  /\ Formed([params EXCEPT !.simple = w, !.advanced = v])
               /\ Formed([params EXCEPT !.area = v]) /\ Formed([params EXCEPT !.table = v])
               /\ Formed([params EXCEPT !.outputFormat = v]) /\ Formed([params EXCEPT !.amount = v])
    BY <1>1 DEF Formed, Names
  <2>3. ASSUME NEW v, NEW w
        PROVE  /\ [params EXCEPT !.simple = w, !.advanced = v].advancedFilter = params.advancedFilter
               /\ [params EXCEPT !.area = v].advancedFilter = params.advancedFilter
               /\ [params EXCEPT !.table = v].advancedFilter = params.advancedFilter
               /\ [params EXCEPT !.outputFormat = v].advancedFilter = params.advancedFilter
               /\ [params EXCEPT !.amount = v].advancedFilter = params.advancedFilter
    BY <1>1 DEF Names
  <2>4. CASE PickDate
    BY <1>2, <2>1, <2>4 DEF PickDate, Change
  <2>5. CASE SetField
    BY <1>2, <2>2, <2>3, <2>5 DEF SetField, Change
  <2>6. CASE \E on \in BOOLEAN : useAdvancedFilter(on)
    BY <1>2, <2>2, <2>3, <2>6 DEF useAdvancedFilter, Change
  <2> QED BY <1>6, <2>4, <2>5, <2>6
<1> QED BY <1>3, <1>4, <1>5, <1>6 DEF Typing

(* The page implements the directive: only typing in the text area, clearing and loading *)
(* change the text, and nothing else touches its timers (app-directives.js:54-87,         *)
(* app-ctrl.js:520-525).                                                                 *)
THEOREM PageIsValidation == PageSpec => V!Spec
<1>1. PageInit => V!Init
  BY FormAssumption DEF PageInit, Init, Fresh, V!Init
<1>2. IInv /\ [PageNext]_pageVars => [V!Next]_(V!vars)
  <2> SUFFICES ASSUME IInv, [PageNext]_pageVars PROVE [V!Next]_(V!vars)
    OBVIOUS
  <2>1. CASE (Typing \/ Sending \/ Enable \/ FiltersReady) /\ UNCHANGED validation
    BY <2>1, FilterStays DEF validation, V!vars
  <2>2. CASE EditFilter
    BY <2>2 DEF EditFilter, V!Next
  <2>3. CASE FilterTimer
    BY <2>3 DEF FilterTimer, V!Next, V!Network
  <2>4. CASE \E n \in 1..MaxActs : FilterAnswer(n)
    <3>1. PICK n \in 1..MaxActs : V!Answer(n) \/ V!AnswerFails(n)
      BY <2>4 DEF FilterAnswer
    <3>2. n \in questions
      BY <3>1 DEF V!Answer, V!AnswerFails
    <3> QED BY <3>1, <3>2 DEF V!Next, V!Network
  <2>5. CASE ClearForm \/ LoadPage
    BY <2>5 DEF ClearForm, LoadPage, V!Next
  <2>6. CASE UNCHANGED pageVars
    BY <2>6 DEF pageVars, vars, validation, V!vars
  <2> QED BY <2>1, <2>2, <2>3, <2>4, <2>5, <2>6 DEF PageNext
<1> QED BY PageIsForm, FormSteps, <1>1, <1>2, PTL DEF PageSpec, V!Spec

-----------------------------------------------------------------------------
(* The directive that validates the advanced filter, for any texts, verdicts and number   *)
(* of edits. That the text typed last is judged is not inductive by itself: an answer     *)
(* must not come from an edit that is older than one whose answer is shown, which is      *)
(* ShowsLatest, and a timer must not fire for an edit that is older than one that was     *)
(* asked about, which is InTurn.                                                          *)

FilterInv == V!TypeOK /\ V!InTurn /\ V!ShowsLatest /\ V!LastEditIsJudged

(* One more edit: the older ones keep their numbers and texts (app-directives.js:86-90). *)
LEMMA OneMoreEdit ==
  ASSUME typed \in Seq(Text), NEW v \in Text, typed' = Append(typed, v)
  PROVE  /\ typed' \in Seq(Text)
         /\ V!Last \in Nat /\ V!Last' = V!Last + 1
         /\ V!Edit \subseteq V!Edit' /\ V!Last' \in V!Edit' /\ V!Last' \notin V!Edit
         /\ \A n \in V!Edit : n < V!Last' /\ typed'[n] = typed[n]
BY DEF V!Last, V!Edit

(* A question, a timer and an answer are about edits there were, and the page knows       *)
(* their texts (app-directives.js:62-84).                                                *)
LEMMA FilterTypeStep == V!TypeOK /\ [V!Next]_(V!vars) => V!TypeOK'
<1> SUFFICES ASSUME V!TypeOK, [V!Next]_(V!vars) PROVE V!TypeOK'
  OBVIOUS
<1>1. ASSUME NEW v \in Text, V!Type(v) PROVE V!TypeOK'
  <2>1. /\ typed' \in Seq(Text) /\ V!Last \in Nat /\ V!Last' = V!Last + 1
        /\ V!Edit \subseteq V!Edit' /\ V!Last' \in V!Edit'
    BY <1>1, OneMoreEdit DEF V!Type, V!TypeOK
  <2>2. timers' \subseteq V!Edit' /\ promise' \in 0..V!Last'
    BY <1>1, <2>1 DEF V!Type, V!TypeOK
  <2> QED BY <1>1, <2>1, <2>2 DEF V!Type, V!TypeOK
<1>2. CASE V!TimerFires
  BY <1>2 DEF V!TimerFires, V!TypeOK, V!Edit, V!Last
<1>3. ASSUME NEW n \in questions, V!Answer(n) PROVE V!TypeOK'
  <2>1. typed[n] \in Text /\ 0 \in 0..V!Last
    BY <1>3 DEF V!TypeOK, V!Edit, V!Last
  <2> QED BY <1>3, <2>1 DEF V!Answer, V!TypeOK, V!Edit, V!Last
<1>4. ASSUME NEW n \in questions, V!AnswerFails(n) PROVE V!TypeOK'
  <2>1. 0 \in 0..V!Last
    BY DEF V!TypeOK, V!Last
  <2> QED BY <1>4, <2>1 DEF V!AnswerFails, V!TypeOK, V!Edit, V!Last
<1>5. CASE V!Clear
  BY <1>5 DEF V!Clear, V!TypeOK, V!Edit, V!Last
<1>6. CASE V!Load
  <2>1. typed' \in Seq(Text) /\ V!Last' = 0
    BY <1>6, EmptySeq DEF V!Load, V!Last
  <2>2. promise' \in 0..V!Last'
    BY <1>6, <2>1 DEF V!Load
  <2>3. params.advancedFilter' \in Text /\ validity' = TRUE /\ upset' \in BOOLEAN
    BY <1>6 DEF V!Load
  <2>4. timers' = {} /\ questions' = {} /\ done' = {}
    BY <1>6 DEF V!Load
  <2> QED BY <2>1, <2>2, <2>3, <2>4 DEF V!TypeOK
<1>7. CASE UNCHANGED V!vars
  BY <1>7 DEF V!vars, V!TypeOK, V!Edit, V!Last
<1> QED BY <1>1, <1>2, <1>3, <1>4, <1>5, <1>6, <1>7 DEF V!Next, V!Network

(* Timers fire after all questions of older edits (app-directives.js:67-76).             *)
LEMMA InTurnStep == V!TypeOK /\ V!InTurn /\ [V!Next]_(V!vars) => V!InTurn'
<1> SUFFICES ASSUME V!TypeOK, V!InTurn, [V!Next]_(V!vars) PROVE V!InTurn'
  OBVIOUS
<1>0. V!Edit \subseteq Nat
  BY DEF V!Edit
<1>1. ASSUME NEW v \in Text, V!Type(v) PROVE V!InTurn'
  <2>1. \A n \in V!Edit : n < V!Last'
    BY <1>1, OneMoreEdit DEF V!Type, V!TypeOK
  <2>2. V!Last' = V!Last + 1
    BY <1>1, OneMoreEdit DEF V!Type, V!TypeOK
  <2> QED BY <1>1, <2>1, <2>2 DEF V!Type, V!TypeOK, V!InTurn
<1>2. CASE V!TimerFires
  <2>1. PICK n \in timers :
          /\ \A m \in timers : n <= m
          /\ timers' = timers \ {n} /\ questions' = questions \cup {n} /\ done' = done
    BY <1>2 DEF V!TimerFires
  <2>2. \A t \in timers' : n < t
    BY <1>0, <2>1 DEF V!TypeOK
  <2> QED BY <2>1, <2>2 DEF V!InTurn
<1>3. ASSUME NEW n \in questions, V!Answer(n) \/ V!AnswerFails(n) PROVE V!InTurn'
  BY <1>3 DEF V!Answer, V!AnswerFails, V!InTurn
<1>4. CASE V!Clear \/ UNCHANGED V!vars
  BY <1>4 DEF V!Clear, V!vars, V!InTurn
<1>5. CASE V!Load
  BY <1>5 DEF V!Load, V!InTurn
<1> QED BY <1>1, <1>2, <1>3, <1>4, <1>5 DEF V!Next, V!Network

(* As long as no answer fails or is overtaken the verdict shown is that of the latest     *)
(* edit answered (app-directives.js:75-82).                                              *)
LEMMA ShowsLatestStep == V!TypeOK /\ V!ShowsLatest /\ [V!Next]_(V!vars) => V!ShowsLatest'
<1> SUFFICES ASSUME V!TypeOK, V!ShowsLatest, [V!Next]_(V!vars) PROVE V!ShowsLatest'
  OBVIOUS
<1>0. V!Edit \subseteq Nat
  BY DEF V!Edit
<1>1. ASSUME NEW v \in Text, V!Type(v) PROVE V!ShowsLatest'
  <2>1. \A n \in done : typed'[n] = typed[n]
    BY <1>1, OneMoreEdit DEF V!Type, V!TypeOK
  <2> QED BY <1>1, <2>1 DEF V!Type, V!ShowsLatest
<1>2. CASE V!TimerFires
  BY <1>2 DEF V!TimerFires, V!ShowsLatest
<1>3. ASSUME NEW n \in questions, V!Answer(n) PROVE V!ShowsLatest'
  <2> SUFFICES ASSUME ~upset' PROVE V!ShowsLatest'
    BY DEF V!ShowsLatest
  <2>1. n \in done' /\ validity' = Verdict[typed[n]] /\ typed' = typed
    BY <1>3 DEF V!Answer
  <2>2. \A m \in done' : m <= n
    <3>1. ~\E later \in done : later > n
      BY <1>3, Zenon DEF V!Answer
    <3>2. done' = done \cup {n} /\ done \subseteq Nat /\ n \in Nat
      BY <1>0, <1>3 DEF V!Answer, V!TypeOK
    <3> QED BY <3>1, <3>2
  <2> QED BY <2>1, <2>2 DEF V!ShowsLatest
<1>4. ASSUME NEW n \in questions, V!AnswerFails(n) PROVE V!ShowsLatest'
  BY <1>4 DEF V!AnswerFails, V!ShowsLatest
<1>5. CASE V!Clear \/ UNCHANGED V!vars
  BY <1>5 DEF V!Clear, V!vars, V!ShowsLatest
<1>6. CASE V!Load
  BY <1>6 DEF V!Load, V!ShowsLatest
<1> QED BY <1>1, <1>2, <1>3, <1>4, <1>5, <1>6 DEF V!Next, V!Network

(* The question about the last edit is never lost (app-directives.js:67-82).             *)
LEMMA LastIsKept ==
  ASSUME V!TypeOK, [V!Next]_(V!vars), V!Last > 0 => V!Last \in timers \cup questions \cup done
  PROVE  (V!Last > 0 => V!Last \in timers \cup questions \cup done)'
<1>1. ASSUME NEW v \in Text, V!Type(v) PROVE V!Last' \in timers'
  BY <1>1, OneMoreEdit DEF V!Type, V!TypeOK
<1>2. CASE V!TimerFires
  BY <1>2 DEF V!TimerFires, V!Last
<1>3. ASSUME NEW n \in questions, V!Answer(n) \/ V!AnswerFails(n)
      PROVE  (V!Last > 0 => V!Last \in timers \cup questions \cup done)'
  BY <1>3 DEF V!Answer, V!AnswerFails, V!Last
<1>4. CASE V!Clear \/ UNCHANGED V!vars
  BY <1>4 DEF V!Clear, V!vars, V!Last
<1>5. CASE V!Load
  BY <1>5 DEF V!Load, V!Last
<1> QED BY <1>1, <1>2, <1>3, <1>4, <1>5 DEF V!Next, V!Network

(* Once all is quiet the last edit is the latest one answered (app-directives.js:75-76). *)
LEMMA LastIsShown ==
  ASSUME V!TypeOK, V!ShowsLatest, V!Last > 0, V!Last \in timers \cup questions \cup done
  PROVE  V!Quiet /\ ~upset => validity = Verdict[typed[V!Last]]
<1> SUFFICES ASSUME V!Quiet, ~upset PROVE validity = Verdict[typed[V!Last]]
  OBVIOUS
<1>1. V!Last \in done
  BY DEF V!Quiet
<1>2. PICK n \in done : (\A m \in done : m <= n) /\ validity = Verdict[typed[n]]
  BY <1>1 DEF V!ShowsLatest
<1>3. n <= V!Last /\ V!Last <= n /\ n \in Nat /\ V!Last \in Nat
  BY <1>1, <1>2 DEF V!TypeOK, V!Edit, V!Last
<1> QED BY <1>2, <1>3

LEMMA FilterInitially == V!Init => FilterInv
<1> SUFFICES ASSUME V!Init PROVE FilterInv
  OBVIOUS
<1>1. typed \in Seq(Text) /\ V!Last = 0
  BY EmptySeq DEF V!Init, V!Begin, V!Last
<1>2. promise \in 0..V!Last
  BY <1>1 DEF V!Init, V!Begin
<1>3. params.advancedFilter \in Text /\ validity = TRUE /\ upset \in BOOLEAN
  BY DEF V!Init, V!Begin
<1>4. timers = {} /\ questions = {} /\ done = {}
  BY DEF V!Init, V!Begin
<1>5. V!TypeOK
  BY <1>1, <1>2, <1>3, <1>4 DEF V!TypeOK
<1> QED BY <1>1, <1>4, <1>5 DEF FilterInv, V!InTurn, V!ShowsLatest, V!LastEditIsJudged

LEMMA FilterInductive == FilterInv /\ [V!Next]_(V!vars) => FilterInv'
<1> SUFFICES ASSUME FilterInv, [V!Next]_(V!vars) PROVE FilterInv'
  OBVIOUS
<1>1. V!TypeOK' /\ V!InTurn' /\ V!ShowsLatest'
  BY FilterTypeStep, InTurnStep, ShowsLatestStep DEF FilterInv
<1>2. (V!Last > 0 => V!Last \in timers \cup questions \cup done)'
  BY LastIsKept DEF FilterInv, V!LastEditIsJudged
<1>3. (V!Last > 0 => (V!Quiet /\ ~upset => validity = Verdict[typed[V!Last]]))'
  BY <1>1, <1>2, LastIsShown, PTL
<1> QED BY <1>1, <1>2, <1>3 DEF FilterInv, V!LastEditIsJudged

(* Types: timers, questions and answers belong to edits of the text                      *)
(* (app-directives.js:62-90).                                                            *)
THEOREM FilterTypes == V!Spec => []V!TypeOK
<1>1. FilterInv => V!TypeOK
  BY DEF FilterInv
<1> QED BY FilterInitially, FilterInductive, <1>1, PTL DEF V!Spec

(* However the user's edits, the timers and the answers interleave, the text typed last   *)
(* is asked about, and its verdict is what the form shows when all is quiet, unless an    *)
(* answer failed or was overtaken (app-directives.js:59-84).                             *)
THEOREM LastEdit == V!Spec => []V!LastEditIsJudged
<1>1. FilterInv => V!LastEditIsJudged
  BY DEF FilterInv
<1> QED BY FilterInitially, FilterInductive, <1>1, PTL DEF V!Spec

(* On the page, too, the filter typed last is validated, whatever is sent, cleared or     *)
(* loaded meanwhile (app-directives.js:59-84).                                            *)
THEOREM FilterIsJudged == PageSpec => []LastEditIsJudged
BY PageIsValidation, LastEdit, PTL DEF LastEditIsJudged
=============================================================================
