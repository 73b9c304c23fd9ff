SPECIFICATION Spec
CONSTANTS
  Shaders <- MCCompares
  MaxInstructions = 8
  MaxDcl = 3
  MaxDef = 3
  MaxSource = 24
INVARIANT
  ComparesPerComponent
CHECK_DEADLOCK FALSE
