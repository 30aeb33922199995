------------------------------ MODULE MCQueryPage ------------------------------
(* Constants of the page's TLC runs. *)
EXTENDS QueryPage

\* Facets of each kind: of both source types, one of another category, one without a value.
MCFacets ==
  [b \in Box |-> CASE b = "source"  -> {<<"type", "SAT">>, <<"type", "any">>}
                   [] b = "target"  -> {<<"country", "">>}
                   [] b = "message" -> {<<"mmsi", "1">>}]

\* One area with all bounds, one with a bound of zero.
MCCoordinates == {<<57, 12, 55, 9>>, <<57, 12, 0, 9>>}
MCAmounts == {[o \in Option |-> IF o = "limit" THEN 5 ELSE 0]}
MCVerdict == [t \in Text |-> t # "bad"]
=============================================================================
