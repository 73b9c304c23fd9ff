SPECIFICATION Spec
CONSTANTS
  Textures = {t1}
  Levels = 2
  Texels = {a}
  Zeros = zeros
  NoTexels = none
  RefreshInterval = 2
  FrameIds = 4
  IpcDraws = 1
  MaxFrames = 4
  MaxDraws = 2
  MaxGeneration = 2
PROPERTIES
  LossesAreRepaired
CHECK_DEADLOCK FALSE
