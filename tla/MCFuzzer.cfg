SPECIFICATION FairSpec
CONSTANTS
  Site <- MCSite
  Arg <- MCArg
  Behaviours <- MCBehaviours
  MaxAttempts = 4
INVARIANTS
  CoveredIsRecorded
  RecordedIsUseful
PROPERTY Termination
