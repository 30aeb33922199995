----------------------------- MODULE MCAreaEditor -----------------------------
(* Constants of the area editor's TLC run. *)
EXTENDS AreaEditor

Box(south, west, north, east) ==
  [f \in Field |-> CASE f = "minLat" -> south [] f = "minLon" -> west
                     [] f = "maxLat" -> north [] f = "maxLon" -> east]

\* A box in the north, one that minutes of 59.9996 make round up, one on the equator.
MCBoxes ==
  {Box(33000000, 7200007, 34199996, 7500000), Box(-1200003, -63000000, -4, 3),
   Box(0, 6600000, 33300000, 7800000)}
MCAreas == {NoArea, Box(33000000, 7200000, Null, 0)}

\* A number, zero, 120 degrees, a position in the south or west, and three texts that are
\* none.
MCTyped ==
  {Number(33600000), Number(0), Number(72000000), Position(12, 30000, TRUE), Words, Junk, Empty}
=============================================================================
