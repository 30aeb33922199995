----------------------------- MODULE PositionFormat -----------------------------
(***************************************************************************)
(* Positions as the fields of an area show and read them. A coordinate is  *)
(* an integer, in ten-thousandths of a minute; a text is what the parser   *)
(* tells apart: nothing, a number, a position of degrees, thousandths of a *)
(* minute and a hemisphere, two words that are no numbers before a letter  *)
(* of a hemisphere, or anything else.                                      *)
(***************************************************************************)
EXTENDS Integers

\* A bound that is missing, one that is not a number, and what has become of that if it was
\* stored.
CONSTANTS Undefined, NaN, Null

ASSUME FormatAssumption ==
  /\ {Undefined, NaN, Null} \cap Int = {}
  /\ Undefined # NaN /\ NaN # Null /\ Null # Undefined

Degree == 600000

Empty == [is |-> "empty", degrees |-> 0, minutes |-> 0, negative |-> FALSE]
Junk  == [Empty EXCEPT !.is = "junk"]
Words == [Empty EXCEPT !.is = "words"]
Position(d, m, neg) == [is |-> "position", degrees |-> d, minutes |-> m, negative |-> neg]

\* A plain number is not in degrees and minutes; m holds it.
Number(m) == [Empty EXCEPT !.is = "number", !.minutes = m]

Text == [is : {"empty", "number", "position", "words", "junk"},
         degrees : Nat, minutes : Int, negative : BOOLEAN]

Abs(x) == IF x < 0 THEN -x ELSE x

\* Degrees have two digits for a latitude and three for a longitude; one digit before them is
\* cut off.
Digits(kind) == IF kind = "latitude" THEN 100 ELSE 1000

\* Minutes are rounded to thousandths, which may make 60.000 of them.
PositionOf(kind, x) ==
  Position((Abs(x) \div Degree) % Digits(kind), ((Abs(x) % Degree) + 5) \div 10, x < 0)

\* What is shown of a bound: of more degrees than that, something garbled.
Shown(kind, x) ==
  IF x \notin Int THEN Empty
  ELSE IF Abs(x) \div Degree < 10 * Digits(kind) THEN PositionOf(kind, x)
  ELSE Junk

\* Words parse to a bound that is not a number; what cannot be parsed is no bound.
Parsed(t) ==
  CASE t.is = "number"   -> t.minutes
    [] t.is = "position" -> LET x == t.degrees * Degree + t.minutes * 10
                            IN  IF t.negative THEN -x ELSE x
    [] t.is = "words"    -> NaN
    [] OTHER             -> Undefined
=============================================================================
