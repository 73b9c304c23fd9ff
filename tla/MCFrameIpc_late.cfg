SPECIFICATION Spec
CONSTANTS
  h1 = h1
  h2 = h2
  p1 = p1
  p2 = p2
  HeaderWords = {h1, h2}
  PayloadWords = {p1, p2}
  SeqMax = 5
  MaxFrames = 3
  MaxSessions = 1
  RestartDuringPoll = FALSE
  LateLoads = TRUE
INVARIANTS
  NoTornFrame
