SPECIFICATION FairPageSpec
CONSTANTS
  Facets <- MCFacets
  Text = {"", "good", "bad"}
  Blank = ""
  Verdict <- MCVerdict
  Dates = {0, 1, 4}
  Hours = {0, 3}
  TenMinutes = 2
  Coordinates <- MCCoordinates
  Undefined = Undefined
  Outputs = {"table"}
  Tables = {"semicolon"}
  Amounts <- MCAmounts
  MaxFacets = 2
  MaxActs = 4
INVARIANTS
  IntervalOrdered
  ReloadRestores
  LastEditIsJudged
PROPERTIES
  SentIsShown
  EditsSettle
