SPECIFICATION ClientSpec
CONSTANTS
  MaxStored = 3
  MaxIpcDraws = 2
  Numbers = {0, 1, 2, 3, 4, 5}
  Frames = {1, 2}
  MaxBatch = 3
INVARIANTS
  StoredInSequence
PROPERTIES
  PublishedInSequence
  CommandsGoTogether
