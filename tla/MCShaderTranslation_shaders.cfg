SPECIFICATION Spec
CONSTANTS
  Shaders <- MCShaders
  MaxInstructions = 8
  MaxDcl = 3
  MaxDef = 3
  MaxSource = 24
INVARIANTS
  TypeOK
  Faithful
  NothingLeftOut
  UsedIsDeclared
  MasksSelect
  AttributesAgree
PROPERTIES
  Settles
CHECK_DEADLOCK FALSE
