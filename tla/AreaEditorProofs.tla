--------------------------- MODULE AreaEditorProofs ---------------------------
(***************************************************************************)
(* Proofs about the fields and the map of an area, for any areas, texts    *)
(* and boxes. What is true between events is not while a digest goes on:   *)
(* then each field shows the bound it has seen, the map the area it has    *)
(* seen, and the digest does not end before these are the present ones.    *)
(***************************************************************************)
EXTENDS AreaEditor, TLAPS

-----------------------------------------------------------------------------
(* The format. *)

(* Rounding minutes to thousandths moves them by half a thousandth at most                *)
(* (position.js:32-33, 49-50).                                                           *)
LEMMA Rounding ==
  ASSUME NEW m \in Nat
  PROVE  /\ (m + 5) \div 10 \in Nat
         /\ 10 * ((m + 5) \div 10) - m <= 5 /\ m - 10 * ((m + 5) \div 10) <= 5
BY SMT

LEMMA Splitting ==
  ASSUME NEW a \in Nat
  PROVE  /\ a \div Degree \in Nat /\ a % Degree \in Nat
         /\ a = (a \div Degree) * Degree + (a % Degree)
BY SMT DEF Degree

(* The digits of the degrees are all there (position.js:38, 55).                          *)
LEMMA AllDigits ==
  ASSUME NEW kind, NEW a \in Nat, a < Digits(kind) * Degree
  PROVE  (a \div Degree) % Digits(kind) = a \div Degree
<1>1. CASE kind = "latitude"
  <2>1. Digits(kind) = 100
    BY <1>1 DEF Digits
  <2>2. a < 60000000
    BY <2>1 DEF Degree
  <2>3. a \div 600000 \in 0..99
    BY <2>2, SMT
  <2> QED BY <2>1, <2>3, SMT DEF Degree
<1>2. CASE kind # "latitude"
  <2>1. Digits(kind) = 1000
    BY <1>2 DEF Digits
  <2>2. a < 600000000
    BY <2>1 DEF Degree
  <2>3. a \div 600000 \in 0..999
    BY <2>2, SMT
  <2> QED BY <2>1, <2>3, SMT DEF Degree
<1> QED BY <1>1, <1>2

LEMMA ParsedPosition ==
  ASSUME NEW t, t.is = "position"
  PROVE  Parsed(t) = IF t.negative THEN -(t.degrees * Degree + t.minutes * 10)
                                   ELSE t.degrees * Degree + t.minutes * 10
<1>1. /\ t.is # "number"
      /\ Parsed(t) = CASE t.is = "number"   -> t.minutes
                       [] t.is = "position" ->
                            IF t.negative THEN -(t.degrees * Degree + t.minutes * 10)
                                          ELSE t.degrees * Degree + t.minutes * 10
                       [] t.is = "words"    -> NaN
                       [] OTHER             -> Undefined
  BY Zenon DEF Parsed
<1> QED BY <1>1

(* A coordinate that is formatted and parsed again has moved by half a thousandth of a   *)
(* minute at most, in degrees, minutes and hemisphere (position.js:24-56, 105-139).       *)
THEOREM RoundTrip ==
  ASSUME NEW kind, NEW x \in Int, Abs(x) < Digits(kind) * Degree
  PROVE  /\ PositionOf(kind, x) \in Text /\ PositionOf(kind, x).is = "position"
         /\ Parsed(PositionOf(kind, x)) \in Int
         /\ Abs(Parsed(PositionOf(kind, x)) - x) <= 5
<1> DEFINE a == Abs(x)
           d == a \div Degree
           m == a % Degree
           r == (m + 5) \div 10
<1>1. a \in Nat /\ (x < 0 => x = -a) /\ (x >= 0 => x = a)
  BY DEF Abs
<1>2. d % Digits(kind) = d
  BY <1>1, AllDigits
<1>3. d \in Nat /\ m \in Nat /\ a = d * Degree + m
  BY <1>1, Splitting
<1>4. r \in Nat /\ 10 * r - m <= 5 /\ m - 10 * r <= 5
  BY <1>3, Rounding
<1> HIDE DEF d, m, r, a
<1>5. PositionOf(kind, x) = [is |-> "position", degrees |-> d, minutes |-> r, negative |-> x < 0]
  BY <1>2 DEF PositionOf, Position, a, d, m, r
<1>6. (x < 0) \in BOOLEAN
  OBVIOUS
<1>7. PositionOf(kind, x) \in Text /\ PositionOf(kind, x).is = "position"
  BY <1>3, <1>4, <1>5, <1>6 DEF Text
<1>8. Parsed(PositionOf(kind, x)) =
        IF x < 0 THEN -(d * Degree + r * 10) ELSE d * Degree + r * 10
  <2>1. /\ PositionOf(kind, x).degrees = d /\ PositionOf(kind, x).minutes = r
        /\ PositionOf(kind, x).negative = (x < 0)
    BY <1>5
  <2> QED BY <1>7, <2>1, ParsedPosition, Zenon
<1>9. d * Degree + r * 10 \in Int /\ d * Degree \in Int
  BY <1>3, <1>4 DEF Degree
<1>10. CASE x < 0
  BY <1>1, <1>3, <1>4, <1>7, <1>8, <1>9, <1>10 DEF Abs
<1>11. CASE ~(x < 0)
  BY <1>1, <1>3, <1>4, <1>7, <1>8, <1>9, <1>11 DEF Abs
<1> QED BY <1>10, <1>11

-----------------------------------------------------------------------------
(* Texts and bounds. *)

LEMMA EmptyText == Empty \in Text /\ Parsed(Empty) = Undefined
BY DEF Empty, Text, Parsed

(* What the parser makes of any text is a bound, a missing one or no number               *)
(* (position.js:62-139, app-directives.js:287-296).                                      *)
LEMMA ParsedType ==
  ASSUME NEW t \in Text
  PROVE  Parsed(t) \in Bound
<1>1. t.degrees \in Nat /\ t.minutes \in Int /\ t.negative \in BOOLEAN
  BY DEF Text
<1>2. CASE t.is = "position"
  <2>1. t.degrees * Degree + t.minutes * 10 \in Int
    BY <1>1 DEF Degree
  <2>2. -(t.degrees * Degree + t.minutes * 10) \in Int
    BY <2>1
  <2>3. Parsed(t) \in Int
    BY <1>1, <1>2, <2>1, <2>2, ParsedPosition
  <2> QED BY <2>3 DEF Bound
<1>3. CASE t.is = "number"
  BY <1>1, <1>3 DEF Parsed, Bound
<1>4. CASE t.is \in {"empty", "words", "junk"}
  BY <1>4 DEF Parsed, Bound
<1> QED BY <1>2, <1>3, <1>4 DEF Text

LEMMA TypedReads ==
  ASSUME NEW t \in Text, Parsed(t) # NaN
  PROVE  ReadsAs(t, Parsed(t))
<1>1. Parsed(t) \in Int \/ t.is \in {"empty", "junk"}
  <2>1. CASE t.is = "position"
    <3>1. t.degrees \in Nat /\ t.minutes \in Int
      BY DEF Text
    <3>2. t.degrees * Degree + t.minutes * 10 \in Int
      BY <3>1 DEF Degree
    <3> QED BY <2>1, <3>2, ParsedPosition
  <2>2. CASE t.is \in {"number", "words", "empty", "junk"}
    BY <2>2 DEF Parsed, Text
  <2> QED BY <2>1, <2>2 DEF Text
<1>2. CASE Parsed(t) \in Int
  BY <1>2 DEF ReadsAs, Abs
<1>3. CASE t.is \in {"empty", "junk"}
  BY <1>3, FormatAssumption DEF ReadsAs, Parsed
<1> QED BY <1>1, <1>2, <1>3

\* What a field shows of a bound in range is the bound.
Shows(f, t, x) ==
  InRange(f, x) => ReadsAs(t, x) /\ (t = Empty \/ t.is = "position")

(* A field shows its bound, after a change as well as when it is left                     *)
(* (app-directives.js:271-304).                                                          *)
LEMMA ShownReads ==
  ASSUME NEW f \in Field, NEW x \in Bound
  PROVE  /\ Shown(Kind(f), x) \in Text
         /\ Shows(f, Shown(Kind(f), x), x)
         /\ x = NaN => Shown(Kind(f), x) = Empty
<1>1. CASE x \notin Int
  BY <1>1, EmptyText, FormatAssumption DEF Shown, ReadsAs, Shows
<1>2. CASE x \in Int
  <2>1. x # NaN
    BY <1>2, FormatAssumption
  <2>2. CASE InRange(f, x)
    <3>1. Abs(x) < Digits(Kind(f)) * Degree
      BY <1>2, <2>2 DEF InRange
    <3>2. Shown(Kind(f), x) = PositionOf(Kind(f), x)
      <4>1. Abs(x) \in Nat /\ Digits(Kind(f)) \in {100, 1000}
        BY <1>2 DEF Abs, Digits
      <4>2. Abs(x) \div Degree < 10 * Digits(Kind(f))
        <5>1. ASSUME NEW n \in Nat, NEW d \in {100, 1000}, n < d * 600000
              PROVE  n \div 600000 < 10 * d
          BY <5>1, SMT
        <5> QED BY <3>1, <4>1, <5>1 DEF Degree
      <4> QED BY <1>2, <4>2 DEF Shown
    <3>3. /\ PositionOf(Kind(f), x) \in Text /\ PositionOf(Kind(f), x).is = "position"
          /\ Parsed(PositionOf(Kind(f), x)) \in Int
          /\ Abs(Parsed(PositionOf(Kind(f), x)) - x) <= 5
      BY <1>2, <3>1, RoundTrip
    <3> QED BY <1>2, <2>1, <3>2, <3>3 DEF ReadsAs, Shows
  <2>3. CASE ~InRange(f, x)
    <3>1. Junk \in Text
      <4>1. Empty \in Text /\ "junk" \in {"empty", "number", "position", "words", "junk"}
        BY EmptyText
      <4> HIDE DEF Empty
      <4> QED BY <4>1 DEF Junk, Text
    <3>2. PositionOf(Kind(f), x) \in Text
      <4>1. Abs(x) \in Nat
        BY <1>2 DEF Abs
      <4>2. /\ (Abs(x) \div Degree) % Digits(Kind(f)) \in Nat
            /\ ((Abs(x) % Degree) + 5) \div 10 \in Nat
        <5>1. Abs(x) \div Degree \in Nat /\ Abs(x) % Degree \in Nat
          BY <4>1, Splitting
        <5>2. ((Abs(x) % Degree) + 5) \div 10 \in Nat
          BY <5>1, Rounding
        <5>3. ASSUME NEW n \in Nat PROVE n % 100 \in Nat /\ n % 1000 \in Nat
          BY SMT
        <5> HIDE DEF Degree
        <5>4. (Abs(x) \div Degree) % Digits(Kind(f)) \in Nat
          BY <5>1, <5>3 DEF Digits
        <5> QED BY <5>2, <5>4
      <4>3. (x < 0) \in BOOLEAN
        OBVIOUS
      <4> QED BY <4>2, <4>3 DEF PositionOf, Position, Text
    <3> QED BY <1>2, <2>1, <2>3, <3>1, <3>2 DEF Shown, Shows
  <2> QED BY <2>2, <2>3
<1> QED BY <1>1, <1>2

(* A box and an area make an area (app-directives.js:187-197).                           *)
LEMMA ExtendedType ==
  ASSUME TypeOK, NEW b \in Boxes
  PROVE  Extended(b) \in [Field -> Bound] /\ (area = NoArea => Extended(b) = b)
<1>1. b \in [Field -> Int]
  BY AreaAssumption
<1>2. ASSUME NEW f \in Field
      PROVE  Extended(b)[f] \in Bound /\ (area = NoArea => Extended(b)[f] = b[f])
  <2>1. b[f] \in Int /\ area[f] \in Bound /\ (area = NoArea => area[f] = Undefined)
    BY <1>1 DEF TypeOK, NoArea
  <2> QED BY <2>1, FormatAssumption DEF Extended, Further, Bound
<1>3. Extended(b) = [f \in Field |-> Extended(b)[f]] /\ b = [f \in Field |-> b[f]]
  BY <1>1 DEF Extended
<1> QED BY <1>2, <1>3

-----------------------------------------------------------------------------
(* The invariant. *)

\* A field shows the bound it has seen, or what is typed in it; if that is no number the
\* field goes on to be empty.
FieldTrue(f) ==
  \/ bound[f] = NaN /\ text[f] # Empty
  \/ InRange(f, bound[f]) =>
       /\ ReadsAs(text[f], bound[f])
       /\ f # editing => text[f] = Empty \/ text[f].is = "position"

FieldsTrue == \A f \in Field : FieldTrue(f)

\* So does the map.
MapTrue ==
  mapShown /\ seen = <<area>> =>
    /\ layer = Drawing(area)
    /\ \A b \in sketch : Extended(b) = area

\* Between events nothing but the control may have to follow.
Settled == phase = "idle" => ~MapDirty /\ \A f \in Field : ~FieldDirty(f)

\* Since the pencil was used, and as long as nothing was typed or drawn, there is no area.
FreshIsEmpty == fresh => area = NoArea

IInv == TypeOK /\ FieldsTrue /\ MapTrue /\ Settled /\ FreshIsEmpty

LEMMA OneArea == \A a, b : <<a>> = <<b>> => a = b
OBVIOUS

LEMMA NoAreaType == NoArea \in [Field -> Bound]
BY DEF NoArea, Bound

LEMMA Initially == Init => IInv
<1> SUFFICES ASSUME Init PROVE IInv
  OBVIOUS
<1>1. area \in [Field -> Bound] /\ bound = area /\ (\A f \in Field : area[f] # NaN)
  BY AreaAssumption DEF Init, Bound
<1>2. \A f \in Field : /\ text[f] \in Text /\ Shows(f, text[f], bound[f])
  BY <1>1, ShownReads DEF Init
<1>3. text \in [Field -> Text]
  BY <1>2 DEF Init
<1>4. TypeOK
  BY <1>1, <1>3, AreaAssumption DEF Init, TypeOK
<1>5. FieldsTrue
  BY <1>2 DEF FieldsTrue, FieldTrue, Shows
<1> QED BY <1>1, <1>4, <1>5 DEF Init, IInv, MapTrue, Settled, MapDirty, FieldDirty, FreshIsEmpty

-----------------------------------------------------------------------------
(* The digest. *)

LEMMA WatchFieldStep ==
  ASSUME IInv, phase # "idle", NEW f \in Field, WatchField(f)
  PROVE  IInv'
<1>1. /\ TypeOK /\ area[f] \in Bound /\ UNCHANGED <<area, editing, map, phase, fresh>>
      /\ text' = [text EXCEPT ![f] = Shown(Kind(f), area[f])]
      /\ bound' = [bound EXCEPT ![f] = area[f]]
  BY DEF WatchField, IInv, TypeOK
<1>2. Shown(Kind(f), area[f]) \in Text /\ Shows(f, Shown(Kind(f), area[f]), area[f])
  BY <1>1, ShownReads
<1>3. TypeOK'
  BY <1>1, <1>2 DEF TypeOK, WatchField, map, pencil
<1>4. ASSUME NEW g \in Field PROVE FieldTrue(g)'
  <2>1. CASE g = f
    <3>1. text'[f] = Shown(Kind(f), area[f]) /\ bound'[f] = area[f]
      BY <1>1 DEF TypeOK
    <3> QED BY <1>2, <2>1, <3>1 DEF FieldTrue, Shows
  <2>2. CASE g # f
    <3>1. text'[g] = text[g] /\ bound'[g] = bound[g] /\ editing' = editing
      BY <1>1, <2>2 DEF TypeOK
    <3> QED BY <3>1 DEF IInv, FieldsTrue, FieldTrue
  <2> QED BY <2>1, <2>2
<1> QED BY <1>1, <1>3, <1>4
        DEF IInv, FieldsTrue, MapTrue, Extended, map, Settled, FreshIsEmpty

(* The map shows the area when it has seen it (app-directives.js:217-244).               *)
LEMMA WatchAreaStep ==
  ASSUME IInv, phase # "idle", WatchArea
  PROVE  IInv'
<1>1. /\ layer' = Drawing(area) /\ sketch' = {}
      /\ UNCHANGED <<area, fields, editing, mapShown, control, phase, fresh, acts>>
      /\ boxActive' = (boxActive /\ ~Defined(area))
  BY DEF WatchArea
<1>2. boxActive' \in BOOLEAN
  BY <1>1, Zenon
<1>3. TypeOK'
  BY <1>1, <1>2 DEF IInv, TypeOK, Drawing, fields
<1>4. MapTrue'
  BY <1>1 DEF MapTrue, Drawing
<1>5. FieldsTrue'
  BY <1>1 DEF IInv, FieldsTrue, FieldTrue, fields
<1> QED BY <1>1, <1>3, <1>4, <1>5 DEF IInv, Settled, FreshIsEmpty

LEMMA OtherWatchStep ==
  ASSUME IInv, phase # "idle", WatchPencil \/ EndDigest
  PROVE  IInv'
<1>1. /\ UNCHANGED <<area, bound, text, editing, mapShown, seen, layer, sketch, fresh, acts>>
      /\ boxActive' \in BOOLEAN /\ control' \in BOOLEAN
  <2>1. boxActive \in BOOLEAN /\ control \in BOOLEAN
    BY DEF IInv, TypeOK
  <2>2. CASE WatchPencil
    BY <2>1, <2>2 DEF WatchPencil, fields, map
  <2>3. CASE EndDigest
    <3>1. boxActive' = (boxActive /\ phase # "drawn") /\ UNCHANGED control
      BY <2>3 DEF EndDigest
    <3>2. boxActive' \in BOOLEAN
      BY <3>1, Zenon
    <3> QED BY <2>1, <2>3, <3>1, <3>2 DEF EndDigest, fields, map
  <2> QED BY <2>2, <2>3
<1>2. phase' \in {"idle", "digest", "drawn"} /\ Settled'
  <2>1. CASE WatchPencil
    BY <2>1 DEF WatchPencil, IInv, TypeOK, Settled
  <2>2. CASE EndDigest
    BY <1>1, <2>2 DEF EndDigest, Settled, Dirty, MapDirty, FieldDirty
  <2> QED BY <2>1, <2>2
<1> QED BY <1>1, <1>2
        DEF IInv, TypeOK, FieldsTrue, FieldTrue, MapTrue, Extended, FreshIsEmpty

-----------------------------------------------------------------------------
(* Events, which begin when the last digest has ended. *)

LEMMA TypeStep ==
  ASSUME IInv, phase = "idle", NEW f \in Field, NEW t \in Typed, Type(f, t)
  PROVE  IInv'
<1>1. t \in Text /\ Parsed(t) \in Bound /\ TypeOK
  BY AreaAssumption, ParsedType DEF IInv
<1>2. /\ area' = [area EXCEPT ![f] = Parsed(t)] /\ bound' = [bound EXCEPT ![f] = Parsed(t)]
      /\ text' = [text EXCEPT ![f] = t] /\ editing' = f /\ phase' = "digest" /\ fresh' = FALSE
      /\ editing \in {NoField, f}
      /\ UNCHANGED <<map, pencil>> /\ acts' \in Nat
  BY <1>1 DEF Type, Act, TypeOK
<1>3. TypeOK'
  BY <1>1, <1>2 DEF TypeOK, map, pencil
<1>4. ASSUME NEW g \in Field PROVE FieldTrue(g)'
  <2>1. CASE g = f
    <3>1. text'[f] = t /\ bound'[f] = Parsed(t)
      BY <1>1, <1>2 DEF TypeOK
    <3>2. CASE Parsed(t) = NaN
      <4>1. t # Empty
        BY <3>2, EmptyText, FormatAssumption
      <4> QED BY <2>1, <3>1, <3>2, <4>1 DEF FieldTrue
    <3>3. CASE Parsed(t) # NaN
      BY <1>1, <1>2, <2>1, <3>1, <3>3, TypedReads DEF FieldTrue
    <3> QED BY <3>2, <3>3
  <2>2. CASE g # f
    <3>1. text'[g] = text[g] /\ bound'[g] = bound[g] /\ g # editing
      BY <1>1, <1>2, <2>2 DEF TypeOK, NoField, Field
    <3> QED BY <3>1 DEF IInv, FieldsTrue, FieldTrue
  <2> QED BY <2>1, <2>2
<1>5. MapTrue'
  <2>1. CASE area' = area
    BY <1>2, <2>1 DEF map, IInv, MapTrue, Extended
  <2>2. CASE area' # area
    <3>1. mapShown => seen = <<area>>
      BY DEF IInv, Settled, MapDirty
    <3> QED BY <1>2, <2>2, <3>1, OneArea DEF map, MapTrue
  <2> QED BY <2>1, <2>2
<1> QED BY <1>2, <1>3, <1>4, <1>5 DEF IInv, FieldsTrue, Settled, FreshIsEmpty

LEMMA LeaveStep ==
  ASSUME IInv, phase = "idle", NEW f \in Field, Leave(f)
  PROVE  IInv'
<1>1. /\ TypeOK /\ bound[f] \in Bound /\ editing = f /\ editing' = NoField
      /\ text' = [text EXCEPT ![f] = Shown(Kind(f), bound[f])]
      /\ UNCHANGED <<area, bound, map, pencil, phase, fresh, acts>>
  BY DEF Leave, IInv, TypeOK
<1>2. /\ Shown(Kind(f), bound[f]) \in Text /\ Shows(f, Shown(Kind(f), bound[f]), bound[f])
      /\ bound[f] = NaN => Shown(Kind(f), bound[f]) = Empty
  BY <1>1, ShownReads
<1>3. text'[f] = Shown(Kind(f), bound[f]) /\ \A g \in Field \ {f} : text'[g] = text[g]
  BY <1>1 DEF TypeOK
<1>4. TypeOK'
  BY <1>1, <1>2 DEF TypeOK, map, pencil
<1>5. ASSUME NEW g \in Field PROVE FieldTrue(g)'
  <2>1. CASE g = f
    BY <1>1, <1>2, <1>3, <2>1 DEF FieldTrue, Shows
  <2>2. CASE g # f
    BY <1>1, <1>3, <2>2 DEF IInv, FieldsTrue, FieldTrue
  <2> QED BY <2>1, <2>2
<1>6. Settled'
  <2>1. bound[f] = area[f] /\ (area[f] = NaN => text'[f] = Empty)
    BY <1>2, <1>3 DEF IInv, Settled, FieldDirty
  <2>2. ASSUME NEW g \in Field PROVE ~FieldDirty(g)'
    BY <1>1, <1>3, <2>1 DEF IInv, Settled, FieldDirty
  <2> QED BY <1>1, <2>2 DEF IInv, Settled, MapDirty, map
<1> QED BY <1>1, <1>4, <1>5, <1>6
        DEF IInv, FieldsTrue, MapTrue, Extended, map, FreshIsEmpty

(* The area is removed, the map made or destroyed, or something else happens on the page *)
(* (app-ctrl.js:297-323, app-directives.js:113-168, 204-206).                             *)
LEMMA OtherStep ==
  ASSUME IInv, phase = "idle", clearArea \/ removeArea \/ toggleMap \/ Digest
  PROVE  IInv'
<1>0. TypeOK /\ NoArea \in [Field -> Bound]
  BY NoAreaType DEF IInv
<1>1. /\ UNCHANGED <<fields, editing>> /\ phase' = "digest" /\ acts' \in Nat
      /\ boxActive' \in BOOLEAN /\ control' \in BOOLEAN /\ fresh' \in BOOLEAN
      /\ \/ area' = NoArea /\ UNCHANGED map
         \/ UNCHANGED <<area, fresh, map>>
         \/ /\ UNCHANGED area /\ fresh' = FALSE /\ mapShown' \in BOOLEAN
            /\ seen' = <<>> /\ layer' = <<>> /\ sketch' = {}
  <2>1. /\ boxActive \in BOOLEAN /\ control \in BOOLEAN /\ fresh \in BOOLEAN /\ acts \in Nat
        /\ (~boxActive) \in BOOLEAN /\ (~mapShown) \in BOOLEAN
    BY <1>0, Zenon DEF TypeOK
  <2>2. CASE clearArea
    BY <2>1, <2>2 DEF clearArea, pencil
  <2>3. CASE removeArea
    <3>1. acts' \in Nat
      BY <2>1, <2>3 DEF removeArea, Act
    <3> QED BY <2>1, <2>3, <3>1, Zenon DEF removeArea
  <2>4. CASE toggleMap
    <3>1. acts' \in Nat
      BY <2>1, <2>4 DEF toggleMap, Act
    <3> QED BY <2>1, <2>4, <3>1, Zenon DEF toggleMap
  <2>5. CASE Digest
    BY <2>1, <2>5 DEF Digest, pencil
  <2> QED BY <2>2, <2>3, <2>4, <2>5
<1>2. TypeOK'
  BY <1>0, <1>1 DEF TypeOK, fields, map
<1>3. FieldsTrue'
  BY <1>1 DEF IInv, FieldsTrue, FieldTrue, fields
<1>4. MapTrue'
  <2>1. mapShown => seen = <<area>>
    BY DEF IInv, Settled, MapDirty
  <2>2. CASE area' = area /\ UNCHANGED map
    BY <2>2 DEF map, IInv, MapTrue, Extended
  <2>3. CASE area' # area /\ UNCHANGED map
    BY <2>1, <2>3, OneArea DEF map, MapTrue
  <2>4. CASE seen' = <<>>
    BY <2>4 DEF MapTrue
  <2> QED BY <1>1, <2>2, <2>3, <2>4
<1> QED BY <1>1, <1>2, <1>3, <1>4 DEF IInv, Settled, FreshIsEmpty

(* A box is drawn (app-directives.js:173-202).                                           *)
LEMMA DrawStep ==
  ASSUME IInv, phase = "idle", NEW b \in Boxes, readFeatureGeometry(b)
  PROVE  IInv'
<1>1. /\ sketch' = sketch \cup {b} /\ area' = Extended(b) /\ phase' = "drawn" /\ fresh' = FALSE
      /\ UNCHANGED <<fields, editing, mapShown, seen, layer, pencil>> /\ acts' \in Nat
  BY DEF readFeatureGeometry, Act, IInv, TypeOK
<1>2. TypeOK'
  BY <1>1, ExtendedType DEF IInv, TypeOK, fields, pencil
<1>3. FieldsTrue'
  BY <1>1 DEF IInv, FieldsTrue, FieldTrue, fields
<1>4. MapTrue'
  <2>1. mapShown => seen = <<area>>
    BY DEF IInv, Settled, MapDirty
  <2>2. CASE area' = area
    <3>1. \A c \in Boxes : Extended(c)' = Extended(c)
      BY <2>2 DEF Extended
    <3>2. sketch \subseteq Boxes
      BY DEF IInv, TypeOK
    <3> QED BY <1>1, <2>2, <3>1, <3>2 DEF IInv, MapTrue
  <2>3. CASE area' # area
    BY <1>1, <2>1, <2>3, OneArea DEF MapTrue
  <2> QED BY <2>2, <2>3
<1> QED BY <1>1, <1>2, <1>3, <1>4 DEF IInv, Settled, FreshIsEmpty

LEMMA Inductive == IInv /\ [Next]_vars => IInv'
<1> SUFFICES ASSUME IInv, [Next]_vars PROVE IInv'
  OBVIOUS
<1>1. CASE Digesting
  BY <1>1, WatchFieldStep, WatchAreaStep, OtherWatchStep DEF Digesting
<1>2. CASE Event
  BY <1>2, TypeStep, LeaveStep, OtherStep, DrawStep DEF Event
<1>3. CASE UNCHANGED vars
  BY <1>3 DEF vars, fields, map, pencil, IInv, TypeOK, FieldsTrue, FieldTrue, MapTrue, Extended,
              Settled, MapDirty, FieldDirty, FreshIsEmpty
<1> QED BY <1>1, <1>2, <1>3 DEF Next

(* What a field or the map has seen is what it shows, in a digest as well, and when the   *)
(* digest has ended they have seen the area (app-directives.js:160-244, 270-304).         *)
THEOREM Invariance == Spec => []IInv
BY Initially, Inductive, PTL DEF Spec

(* Between events the map has the box of the area, and no box drawn by hand that is not  *)
(* within it, whatever is typed, drawn and cleared, and in whatever order the watchers    *)
(* are called (app-directives.js:173-202, 217-244).                                      *)
THEOREM MapFollows == Spec => []MapShowsArea
<1>1. IInv => MapShowsArea
  BY DEF IInv, MapTrue, Settled, MapDirty, MapShowsArea
<1> QED BY Invariance, <1>1, PTL

(* Between events a field shows the bound of the query, but for rounding, if its degrees *)
(* have no more digits than are shown; the other fields do so whatever is typed in one    *)
(* (app-directives.js:270-304, position.js:24-56).                                       *)
THEOREM FieldsFollowArea == Spec => []ShownIsArea
<1>1. IInv => ShownIsArea
  BY DEF IInv, FieldsTrue, FieldTrue, Settled, FieldDirty, ShownIsArea
<1> QED BY Invariance, <1>1, PTL

(* A box drawn after the pencil was pressed becomes the area (app-directives.js:182-206). *)
THEOREM DrawnBecomesArea == Spec => DrawnIsArea
<1>1. IInv => (\A b \in Boxes : readFeatureGeometry(b) /\ fresh => area' = b)
  BY ExtendedType DEF IInv, FreshIsEmpty, readFeatureGeometry
<1>2. IInv /\ [Next]_vars =>
        [\A b \in Boxes : readFeatureGeometry(b) /\ fresh => area' = b]_vars
  BY <1>1
<1> QED BY Invariance, <1>2, PTL DEF Spec, DrawnIsArea
=============================================================================
