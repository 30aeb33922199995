SPECIFICATION Spec
CONSTANTS
  Undefined = Undefined
  NaN = NaN
  Null = Null
  Areas <- MCAreas
  Typed <- MCTyped
  Boxes <- MCBoxes
  MaxActs = 7
INVARIANTS
  MapShowsArea
  ShownIsArea
PROPERTIES
  DrawnIsArea
