SPECIFICATION FairSpec
CONSTANTS
  w1 = w1
  t1 = t1
  t2 = t2
  f1 = f1
  f2 = f2
  Test = {t1, t2}
  Worker = {w1, w2}
  Branch = {b1, b2}
  Folder = {f1, f2}
  Configs <- SharedOnlySerially
  NoTest = NoTest
INVARIANTS
  AcceptedOnOwnInputs
  ExitZeroIsEarned
PROPERTY Termination
