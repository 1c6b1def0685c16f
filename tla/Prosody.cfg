CONSTANTS
    Texts <- MCTexts
    NextTexts <- MCNextTexts
    AccClass <- MCAccClass
    Cap = 2
    AcphHeadx = 5
    AcphCbuf = 15
    MaxItemSize = 4
    Strengths = {"PHR0", "PHR2", "PHR3"}
    SphoHeadx = 6
    SphoCbuf = 12
    MaxPhons = 16
    Targets = {"PHR0", "PHR1"}
    MaxSyll = 7
    MaxPh = 16
    MaxItems = 60
    OutBufSize = 24
    FrameItemSize = 10
    MaxResets = 1
SPECIFICATION FairSpec
INVARIANTS PhrasedAsRead SpokenInOrder PausesAsAsked
PROPERTIES UnitsKeepProtocol SentencesComeOut
