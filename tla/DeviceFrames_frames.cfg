SPECIFICATION Spec
CONSTANTS
  MaxStored = 3
  MaxIpcDraws = 2
  SeqMax = 9
  MaxPackets = 9
  MaxDevices = 1
  SceneFirst = TRUE
INVARIANTS
  TypeOK
  ReplayHoldsTheFrame
  CountsAgree
PROPERTIES
  ImplementsAssembly
CHECK_DEADLOCK FALSE
