SPECIFICATION Spec
CONSTANTS
  root = root
  dev = dev
  chain = chain
  tex = tex
  cube = cube
  vb = vb
  ib = ib
  decl = decl
  vs = vs
  ps = ps
  query = query
  Objects = {root, dev, chain, tex, cube, vb, ib, decl, vs, ps, query, s1, s2, s3}
  Kind <- MCKind
  RenderTargets = 1
  Stages = 1
  Streams = 1
  Levels = 2
  Faces = 1
  HeapObjects = 5
  GameRefs = 3
  Null = Null
  Freed = Freed
SYMMETRY SurfacesAlike
INVARIANTS
  Accounted
  ExistsWhileReachable
  ContainersHoldTheirSurfaces
  OwnSwapChain
  QueriesKeepTheirDevice
CHECK_DEADLOCK FALSE
