SPECIFICATION Spec
CONSTANTS
  Slots = 2
  SlotBytes = 6
  Align = 2
  FrameIds = 3
  ConstantBytes = 2
  Payloads = {0, 1}
  Settings = {zero, v1}
  Buffers = {b1}
  Blank = zero
  Devices = {d1}
  MayFail = TRUE
INVARIANTS
  TypeOK
  CommandsKeepTheirData
  CachedConstantsAreCurrent
PROPERTIES
  ImplementsImmediate
CHECK_DEADLOCK FALSE
