SPECIFICATION FairSpec
CONSTANTS
  Val <- MCVal
  StartGlob = 0
  NoGlob = NoGlob
  Functions <- MCFunctions
  MaxExplored = 2
  MaxFuzzed = 1
INVARIANTS
  EveryValidInputDumped
  ExploredInputsReplayed
  EnvironmentRestored
PROPERTY ReplayEnds
