SPECIFICATION FairSpec
CONSTANTS
  Input <- MCInput
  Node <- MCNode
  Specs <- MCSpecs
  Programs <- MCPrograms
  MaxDepth = 3
  SolverGivesUp = TRUE
INVARIANTS
  MatchIsReal
  ReportedPromptly
  NothingMissed
PROPERTY Termination
