SPECIFICATION Spec
CONSTANTS
  north = north
  south = south
  nowhere = nowhere
  Packet <- Packets
  Mmsi <- Senders
  Time <- Timestamps
  Position <- Positions
  Cell <- Cells
  NoCell = nowhere
  BatchSize = 2
  Timeout = 2
  MaxClock = 3
  Budget <- Once
CHECK_DEADLOCK FALSE
INVARIANTS
  TypeOK
  TrackerIsNewest
  TablesAgree
  FiledTwiceAfterFailure
PROPERTIES
  FiledAtNewestPosition
