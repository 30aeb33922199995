--------------------------- MODULE MCFileExportRest ---------------------------
(* Constants of the export client's TLC runs. *)
EXTENDS FileExportRest, TLC

\* The first packet is at the start of the interval, the third and fourth share a
\* timestamp.
MixedTimes == <<1, 2, 3, 3, 4, 5>>
\* One event of each kind; the network breaks off twice.
Faults == [k \in EventKind |-> IF k = "network" THEN 2 ELSE 1]
=============================================================================
