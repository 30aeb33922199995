SPECIFICATION Spec
CONSTANTS
  p1 = p1
  p2 = p2
  p3 = p3
  p4 = p4
  f1 = f1
  f2 = f2
  Packet <- Packets3
  Unstorable = {p3}
  FileName <- FileNames
  BatchSize = 2
  CapacityFactor = 2
  MaxCapacity = 2
  RestoreFactor = 1
  BackupCapacity = 1
  Budget <- OneOfEach
SYMMETRY SymmetryBut3
INVARIANTS
  TypeOK
  NothingLost
  OfferedIsHandedOver
PROPERTIES
  DeletedFileIsHandedOver
  ImplementsPacketStore
