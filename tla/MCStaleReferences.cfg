SPECIFICATION MCSpec
CONSTANTS
  r1 = r1
  r2 = r2
  Ref = {r1, r2}
  Class <- MCClass
  Field = {"f", "g"}
  Bases <- MCBases
  Methods <- MCMethods
  Importable <- MCImportable
  FieldOrder <- MCFieldOrder
  Queries = 2
  Answers <- MCAnswers
  ObjectInput <- MCObjectInput
  MaxObjectOps = 4
INVARIANT NoReferencesYet
