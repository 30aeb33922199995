------------------------------ MODULE AreaEditor ------------------------------
(***************************************************************************)
(* The area of a query: four fields to type its bounds in, and a map that  *)
(* can be shown, on which a box is drawn with a pencil. Events change the  *)
(* area or the pencil and end in a digest of the page, in which watchers   *)
(* bring fields, map and pencil up to date, one after the other and in any *)
(* order here. To leave a field is followed by no digest, and a box that   *)
(* is drawn has its digest before the event ends. Projection is left out:  *)
(* the map may have no room for a box it has been given.                   *)
(***************************************************************************)
EXTENDS PositionFormat

CONSTANTS
  Areas,  \* areas the page may be loaded with
  Typed,  \* texts the user may type in a field
  Boxes,  \* boxes the user may draw
  MaxActs \* bound of what the user does but clearing

Field == {"minLat", "minLon", "maxLat", "maxLon"}
Kind(f) == IF f \in {"minLat", "maxLat"} THEN "latitude" ELSE "longitude"

Bound == Int \cup {Undefined, NaN, Null}
NoArea == [f \in Field |-> Undefined]
NoField == "none"

ASSUME AreaAssumption ==
  /\ Areas \subseteq [Field -> Bound \ {NaN}]
  /\ Boxes \subseteq [Field -> Int] /\ Typed \subseteq Text /\ MaxActs \in Nat

VARIABLES
  area,      \* params.area
  bound,     \* the bound each field has seen, its $modelValue
  text,      \* what it shows
  editing,   \* the field that is being typed in
  mapShown,  \* showAreaMap
  boxActive, \* the pencil is pressed
  control,   \* the drawing control is active
  seen,      \* the area the map has seen, if it has
  layer,     \* the area whose box is on the map, if any
  sketch,    \* boxes drawn by hand that are on the map
  phase,     \* "idle", a "digest", or one inside of the event of a box that was "drawn"
  fresh,     \* for the properties: since the pencil was used nothing was typed or drawn
  acts

fields == <<bound, text>>
map    == <<mapShown, seen, layer, sketch>>
pencil == <<boxActive, control>>
vars   == <<area, fields, editing, map, pencil, phase, fresh, acts>>

\* A bound of zero, or one that is not a number, counts as none.
Defined(a) == \A f \in Field : a[f] \in Int \ {0}

Act == acts > 0 /\ acts' = acts - 1

-----------------------------------------------------------------------------
(* A digest goes on until no watcher finds a change. *)

FieldDirty(f) == bound[f] # area[f] \/ (area[f] = NaN /\ text[f] # Empty)

MapDirty == mapShown /\ seen # <<area>>

Dirty == MapDirty \/ control # boxActive \/ \E f \in Field : FieldDirty(f)

\* A field shows a bound it has not seen; one that is not a number is never taken as seen.
WatchField(f) ==
  /\ FieldDirty(f)
  /\ bound' = [bound EXCEPT ![f] = area[f]]
  /\ text' = [text EXCEPT ![f] = Shown(Kind(f), area[f])]
  /\ UNCHANGED <<area, editing, map, pencil, phase, fresh, acts>>

WatchPencil ==
  /\ control # boxActive
  /\ control' = boxActive
  /\ UNCHANGED <<area, fields, editing, map, boxActive, phase, fresh, acts>>

Drawing(a) == IF Defined(a) THEN <<a>> ELSE <<>>

\* Seeded fault: the boxes of an area that is no longer defined stay.
WatchDefined ==
  /\ MapDirty
  /\ seen' = <<area>>
  /\ IF Defined(area) THEN layer' = Drawing(area) /\ sketch' = {} ELSE UNCHANGED <<layer, sketch>>
  /\ boxActive' = (boxActive /\ ~Defined(area))
  /\ UNCHANGED <<area, fields, editing, mapShown, control, phase, fresh, acts>>

\* The map shows the area instead of all that was on it. A box that is added is an event
\* like one that is drawn: it leaves the area alone, but the pencil is released.
WatchArea ==
  /\ MapDirty
  /\ seen' = <<area>> /\ layer' = Drawing(area) /\ sketch' = {}
  /\ boxActive' = (boxActive /\ ~Defined(area))
  /\ UNCHANGED <<area, fields, editing, mapShown, control, phase, fresh, acts>>

\* The digest ends. If a box was drawn the pencil is released now, and its control learns of
\* that in the next digest only.
EndDigest ==
  /\ ~Dirty
  /\ phase' = "idle"
  /\ boxActive' = (boxActive /\ phase # "drawn")
  /\ UNCHANGED <<area, fields, editing, map, control, fresh, acts>>

Digesting ==
  /\ phase # "idle"
  /\ WatchPencil \/ WatchArea \/ EndDigest \/ \E f \in Field : WatchField(f)

-----------------------------------------------------------------------------
Init ==
  /\ area \in Areas /\ bound = area
  /\ text = [f \in Field |-> Shown(Kind(f), area[f])]
  /\ editing = NoField /\ mapShown = FALSE /\ boxActive = FALSE /\ control = FALSE
  /\ seen = <<>> /\ layer = <<>> /\ sketch = {}
  /\ phase = "idle" /\ fresh = FALSE /\ acts = MaxActs

\* What is typed is parsed at once, and the field has seen the bound it makes.
Type(f, t) ==
  /\ Act
  /\ editing \in {NoField, f} /\ editing' = f
  /\ area' = [area EXCEPT ![f] = Parsed(t)] /\ bound' = [bound EXCEPT ![f] = Parsed(t)]
  /\ text' = [text EXCEPT ![f] = t]
  /\ phase' = "digest" /\ fresh' = FALSE
  /\ UNCHANGED <<map, pencil>>

\* Seeded fault: a field that is left shows what was typed.
LeaveAsTyped(f) ==
  /\ editing = f /\ editing' = NoField
  /\ UNCHANGED <<area, fields, map, pencil, phase, fresh, acts>>

\* The field is left, and shows its bound. There is no digest.
Leave(f) ==
  /\ editing = f /\ editing' = NoField
  /\ text' = [text EXCEPT ![f] = Shown(Kind(f), bound[f])]
  /\ UNCHANGED <<area, bound, map, pencil, phase, fresh, acts>>

\* The area is cleared, alone or with all parameters.
clearArea ==
  /\ area' = NoArea /\ phase' = "digest"
  /\ UNCHANGED <<fields, editing, map, pencil, fresh, acts>>

\* The map is made or destroyed.
toggleMap ==
  /\ Act
  /\ mapShown' = ~mapShown /\ seen' = <<>> /\ layer' = <<>> /\ sketch' = {}
  /\ boxActive' = FALSE /\ control' = FALSE
  /\ phase' = "digest" /\ fresh' = FALSE
  /\ UNCHANGED <<area, fields, editing>>

\* Seeded fault: the pencil leaves the area as it is.
keepArea ==
  /\ mapShown /\ Act
  /\ boxActive' = ~boxActive
  /\ phase' = "digest" /\ fresh' = TRUE
  /\ UNCHANGED <<area, fields, editing, map, control>>

\* The pencil is pressed or released; in either case the area is removed.
removeArea ==
  /\ mapShown /\ Act
  /\ boxActive' = ~boxActive
  /\ area' = NoArea
  /\ phase' = "digest" /\ fresh' = TRUE
  /\ UNCHANGED <<fields, editing, map, control>>

\* The bound further out, to the north and east or to the south and west; null is zero.
Further(outwards, x, y) ==
  IF y \in {Undefined, NaN} THEN (IF y = NaN THEN NaN ELSE x)
  ELSE LET z == IF y = Null THEN 0 ELSE y
       IN  IF (x > z) = outwards THEN x ELSE z

\* The area together with a box.
Extended(box) == [f \in Field |-> Further(f \in {"maxLat", "maxLon"}, box[f], area[f])]

\* A box is drawn, and the area extended.
readFeatureGeometry(box) ==
  /\ control /\ Act
  /\ sketch' = sketch \cup {box}
  /\ area' = Extended(box)
  /\ phase' = "drawn" /\ fresh' = FALSE
  /\ UNCHANGED <<fields, editing, mapShown, seen, layer, pencil>>

\* Any other event of the page, such as a list of results that arrives, ends in a digest.
Digest ==
  /\ Dirty
  /\ phase' = "digest"
  /\ UNCHANGED <<area, fields, editing, map, pencil, fresh, acts>>

Event ==
  /\ phase = "idle"
  /\ \/ \E f \in Field : Leave(f) \/ \E t \in Typed : Type(f, t)
     \/ clearArea \/ toggleMap \/ removeArea \/ Digest
     \/ \E b \in Boxes : readFeatureGeometry(b)

-----------------------------------------------------------------------------
Next == Digesting \/ Event

Spec == Init /\ [][Next]_vars

-----------------------------------------------------------------------------
(* Properties. *)

TypeOK ==
  /\ area \in [Field -> Bound] /\ bound \in [Field -> Bound]
  /\ text \in [Field -> Text] /\ editing \in Field \cup {NoField}
  /\ mapShown \in BOOLEAN /\ boxActive \in BOOLEAN /\ control \in BOOLEAN
  /\ layer = <<>> \/ \E a \in [Field -> Bound] : layer = <<a>>
  /\ sketch \subseteq Boxes
  /\ phase \in {"idle", "digest", "drawn"} /\ fresh \in BOOLEAN /\ acts \in Nat

(* Between events the map, if it is shown, has the box of the area if all four bounds are *)
(* given, and a box drawn by hand is left on it only if it is no larger than the area:   *)
(* typing, clearing, drawing, and the events that drawing the area causes itself, never   *)
(* get them apart (app-directives.js:173-202, 217-244).                                  *)
MapShowsArea ==
  mapShown /\ phase = "idle" =>
    /\ layer = Drawing(area)
    /\ \A b \in sketch : Extended(b) = area

\* The digits of the degrees have room for a bound. Nothing keeps others from being typed.
InRange(f, x) == x \in Int => Abs(x) < Digits(Kind(f)) * Degree

\* A text that stands for a bound.
ReadsAs(t, x) ==
  IF x \in Int THEN Parsed(t) \in Int /\ Abs(Parsed(t) - x) <= 5 ELSE Parsed(t) = Undefined

(* What a field shows between events is its bound, unless the degrees have more digits    *)
(* than are shown: read again it gives that bound but for half a thousandth of a minute,  *)
(* or none if there is no number. A field that was left shows a position or nothing       *)
(* (app-directives.js:270-304, position.js:24-56).                                       *)
ShownIsArea ==
  phase = "idle" =>
    \A f \in Field : InRange(f, area[f]) =>
      /\ ReadsAs(text[f], area[f])
      /\ f # editing => text[f] = Empty \/ text[f].is = "position"

(* The box a user draws becomes the area, if nothing was typed or drawn since the pencil  *)
(* was pressed (app-directives.js:182-206).                                              *)
DrawnIsArea == [][\A b \in Boxes : readFeatureGeometry(b) /\ fresh => area' = b]_vars
=============================================================================
