SPECIFICATION Spec
CONSTANTS
  j1 = j1
  j2 = j2
  c1 = c1
  Job = {j1, j2}
  Client = {c1}
  Owner <- OneClient
  PoolSize = 1
  Budget <- OneEach
SYMMETRY JobSymmetry
INVARIANTS
  TypeOK
  CompleteHasEnded
  LoadedIsKept
PROPERTIES
  YoungFilesStay
