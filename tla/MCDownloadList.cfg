SPECIFICATION FairSpec
CONSTANTS
  Tab = {1, 2}
  Files = {"f"}
  MaxClicks = 3
  MaxErrors = 1
  MaxLists = 1
INVARIANTS
  OpenedHasEnded
  ResetForgets
PROPERTIES
  ListConverges
