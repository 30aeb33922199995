SPECIFICATION FairSpec
CONSTANTS
  N = 6
  Time <- Times
  Key = {1, 2}
  Row <- Rows
  Table <- Tables
  BlockLength <- Blocks
  Interval <- Intervals
  batchLimit = 2
CHECK_DEADLOCK FALSE
INVARIANTS
  EachInOnePlace
  EndedIsComplete
PROPERTIES
  ImplementsPacketStream
  ResultEnds
