SPECIFICATION MCSpec
CONSTANTS
  None = None
  Shapes <- MCShapes
  Targets <- MCTargets
  Indices <- MCIndices
  Apply <- MCApply
  Values = {7}
  MaxRank = 3
  MaxViews = 3
  MaxOps = 3
  ArrayInput <- MCArrayInput
  Other = Other
INVARIANTS
  HalvesAgree
  ViewsShowTheirCells
  StorageIsNumpys
  LayoutsAreExact
