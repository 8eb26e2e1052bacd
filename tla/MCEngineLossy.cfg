SPECIFICATION FairSpec
CONSTANTS
  Input <- MoreInput
  DefaultInput = 0
  Node <- MCNode
  Site <- MCSite
  None = None
  Programs <- MCPrograms
  Tails <- AllTails
  MaxDepth = 3
  Convert <- Lossy
  Comparable <- ButThree
  Unconvertible = {1}
  Unprepared = {4}
  SolverGivesUp = TRUE
INVARIANTS
  NoPathTwice
  EveryInputAccounted
  NoInputTwice
PROPERTY Termination
