SPECIFICATION ListSpec
CONSTANTS
  Val <- MCVal
  MaxLen = 2
  MaxListOps = 4
  NoVal = NoVal
INVARIANT AdditionsIsDeviation
