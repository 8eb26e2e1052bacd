SPECIFICATION Spec
CONSTANTS
  Val <- MCVal
  StartGlob = 0
  NoGlob = NoGlob
  Functions <- MCFunctions
  MaxExplored = 2
  MaxFuzzed = 1
INVARIANT ShownInputWasRun
