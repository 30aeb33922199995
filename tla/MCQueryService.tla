---------------------------- MODULE MCQueryService ----------------------------
(* Constants of the download service's TLC runs. *)
EXTENDS QueryService, TLC

CONSTANTS j1, j2, c1

OneClient == [j \in Job |-> c1]
OneEach   == [k \in EventKind |-> 1]
NoDeletes == [k \in EventKind |-> IF k = "delete" THEN 0 ELSE 1]
JobSymmetry == Permutations(Job)
=============================================================================
