SPECIFICATION MCSpec
CONSTANTS
  Inputs <- MCInputs
  Literals <- MCLiterals
  DividesIntegers = FALSE
  MaxOps = 3
  Input = {s1, s2}
  Ran = s1
  Index = {1, 2}
  Elem = {e1, e2}
  Limits <- MCLimits
  MaxSets = 3
  Val <- MCVal
  MaxLen = 2
  MaxListOps = 5
  NoVal = NoVal
  Key <- MCKey
  Content <- MCContent
  DictInput <- MCDictInput
  MaxSteps = 3
  RangeInput <- MCRangeInput
  RangeCall <- MCRangeCall
  ch = ch
  nl = nl
  Char <- MCChar
  SliceInput <- MCSliceInput
  Bound <- MCBound
  Newline = nl
  Contents <- MCContents
  MaxReads = 4
  Variable = {"x", "y"}
  Values <- MCHeld
  Tests <- MCTests
INVARIANTS
  NumbersArePythons
  FormulaIsRead
  ListIsPythons
  DictIsPythons
  YieldsAreTheRange
  SliceIsPythons
  ReadsAreTheFile
  TestsKeepTheirTruth
