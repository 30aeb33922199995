----------------------------- MODULE MCStoreQuery -----------------------------
(* Constants of the query's TLC runs. *)
EXTENDS StoreQuery

\* Packets at the start (2), on either side of a block boundary (3, 4), of equal time in
\* different rows, and at the stop time (6).
Times  == <<2, 3, 4, 4, 5, 6>>
Rows   == <<1, 1, 1, 2, 2, 2>>
Tables == {"packets_time", "packets_mmsi"}
Blocks == [t \in Tables |-> IF t = "packets_time" THEN 2 ELSE 4]
Intervals == {<<2, 6>>, <<0, 7>>, <<3, 3>>, <<4, 5>>}
=============================================================================
