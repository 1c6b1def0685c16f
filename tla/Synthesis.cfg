CONSTANTS
    Langs = {en, de}
    NoLang = NoLang
    Nobody = Nobody
    Speaker = Speaker
    MaxText = 2
    MaxPieces = 2
    Capacity = 2
    MaxCalls = 2
    MaxProxies = 2
SPECIFICATION FairSpec
INVARIANTS VoiceIsCurrent  StorageHeld HeardAsSpoken
PROPERTIES NothingAfterDone CallersReturn
CHECK_DEADLOCK FALSE
