SPECIFICATION PackSpec
CONSTANTS
    FileSize = 96
    HeaderSize = 12
    DrawSize = 20
    MaxDraws = 2
    Stages = 1
    DataSizes = {8, 16, 40}
    MaxData = 2
INVARIANTS
    FrameAccepted
    TakesWhatIsThere
    InPlace
