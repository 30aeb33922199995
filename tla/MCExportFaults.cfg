SPECIFICATION FairSpec
CONSTANTS
  N = 6
  Time <- MixedTimes
  Undecoded = {5}
  Start = 1
  Every = 2
  Budget <- Faults
INVARIANTS
  TypeOK
  ClaimedIsHeld
  OneCopyPerFault
  ExactWithoutFaults
PROPERTIES
  RetriesComplete
