SPECIFICATION FairSpec
CONSTANTS
  p1 = p1
  p2 = p2
  p3 = p3
  p4 = p4
  f1 = f1
  f2 = f2
  Packet <- Packets2
  Unstorable = {}
  FileName <- FileNames
  BatchSize = 1
  CapacityFactor = 1
  MaxCapacity = 1
  RestoreFactor = 1
  BackupCapacity = 1
  Budget <- OneOfEach
PROPERTIES
  EventuallyDealtWith
  ShutdownStopsImporter
