CONSTANTS
    Items <- MCItems
    Texts <- MCTexts
    NextTexts <- MCNextTexts
    Cap = 1
    MaxWinLen = 4
    CepHeadx = 2
    CepCbuf = 4
    Hop = 2
    VPeriod = 3
    UPeriod = 5
    PlayLen = 1
    MaxSaved = 6
    MaxGot = 14
    MaxResets = 1
SPECIFICATION FairSpec
INVARIANTS SpeechAsSent PointsFit SavedAsHeard
PROPERTIES UnitsKeepProtocol SentencesComeOut
