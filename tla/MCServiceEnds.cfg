SPECIFICATION FairSpec
CONSTANTS
  j1 = j1
  j2 = j2
  c1 = c1
  Job = {j1, j2}
  Client = {c1}
  Owner <- OneClient
  PoolSize = 1
  Budget <- NoDeletes
PROPERTIES
  NoLeftovers
  JobsEnd
