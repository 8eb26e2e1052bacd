SPECIFICATION Spec
CONSTANTS
  Input <- MCInput
  DefaultInput = 0
  Node <- MCNode
  Site <- MCSite
  None = None
  Programs <- MCPrograms
  Tails <- AllTails
  MaxDepth = 3
  Convert <- Identity
  Comparable <- SomeComparable
  Unconvertible = {}
  Unprepared = {}
  SolverGivesUp = FALSE
INVARIANTS
  InputOnItsPath
  ClassFollowsPath
  EveryPathExplored
  ProofsHoldForEveryInput
  YamlInputTriggers
PROPERTY ImplementsPathSearch
