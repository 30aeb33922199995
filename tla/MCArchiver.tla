------------------------------ MODULE MCArchiver ------------------------------
(* Constants of the archiver's TLC runs. *)
EXTENDS Archiver, TLC

CONSTANTS p1, p2, p3, p4, f1, f2

Packets2  == {p1, p2}
Packets3  == {p1, p2, p3}
Packets4  == {p1, p2, p3, p4}
FileNames == {f1, f2}

\* p3 may be the one that cannot be stored.
SymmetryBut3 == Permutations(Packets2) \cup Permutations(FileNames)
Symmetry4    == Permutations(Packets4) \cup Permutations(FileNames)

\* Only Cassandra fails.
WriteFaults == [k \in FaultKind |-> IF k = "write" THEN 3 ELSE 0]
\* One fault of each kind.
OneOfEach == [k \in FaultKind |-> 1]
=============================================================================
