SPECIFICATION Spec
CONSTANTS
  p1 = p1
  p2 = p2
  p3 = p3
  p4 = p4
  f1 = f1
  f2 = f2
  Packet <- Packets4
  Unstorable = {}
  FileName <- FileNames
  BatchSize = 1
  CapacityFactor = 4
  MaxCapacity = 3
  RestoreFactor = 1
  BackupCapacity = 1
  Budget <- WriteFaults
SYMMETRY Symmetry4
INVARIANTS
  MovedNotCopied
  RestoreLeavesRoom
