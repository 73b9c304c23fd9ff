SPECIFICATION Spec
CONSTANTS
  s1 = s1
  s2 = s2
  t1 = t1
  t2 = t2
  Surfaces <- MCSurfaces
  Textures <- MCTextures
  Linked <- OneLinked
  None = None
  Drawable = Drawable
  MaxCommands = 3
  MayFail = TRUE
  ReadsPresented = FALSE
INVARIANTS
  SurfacesHoldTheFrame
  LastReadIsCurrent
  FramesWithCommandsAreCleared
PROPERTIES
  ImplementsImages
