SPECIFICATION Spec
CONSTANTS
  t = t
  u = u
  t0 = t0
  t1 = t1
  u0 = u0
  u1 = u1
  plain = plain
  Surfaces = {t0, t1, u0, u1, plain}
  Textures = {t, u}
  Desc <- MCDesc
  Levels <- MCLevels
  Colors = {a}
  Zero = zero
  NoMemory = none
  MaxGeneration <- MCMaxGeneration
INVARIANTS
  StaysInside
  SentIsCurrent
PROPERTIES
  ImplementsPictures
VIEW Present
CHECK_DEADLOCK FALSE
