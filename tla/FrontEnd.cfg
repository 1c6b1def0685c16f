CONSTANTS
    Kinds <- MCKinds
    MaxSent = 4
    Cap = 1
    MaxHeadx = 4
    CbufSize = 6
    MaxItemSize = 4
    NumFsts = 2
SPECIFICATION FairSpec
INVARIANTS PhrasesKept AllTransducedUntilSoftReset
PROPERTIES UnitsKeepProtocol PhrasesComeOut
