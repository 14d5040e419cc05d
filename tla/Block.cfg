SPECIFICATION Spec
CONSTANTS
  UintSize = 1073741824
  IntMax = 536870911
  Fields <- MCFields
  HuffSym <- MCHuffSym
  MaxFields = 2
  OutSize = 130
  NameSize = 8
CHECK_DEADLOCK FALSE
INVARIANTS StandsOnField AnswersBlock
