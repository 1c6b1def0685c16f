SPECIFICATION FairSpec
CONSTANTS
    Texts <- MCTexts
    NextTexts <- MCNextTexts
    Cap = 3
    OutBufSize = 40
    TokenMax = 3
    MarkupMax = 24
    PosLow = 16
    MaxParams = 4
    Utf8Length <- MCUtf8Length
    Graphs <- MCGraphs
    LowerCase <- MCLowerCase
    Letters <- MCLetters
    Digits <- MCDigits
    Number <- MCNumber
    Phonetic <- MCPhonetic
    Files <- MCFiles
    MaxInItems = 3
    MaxIterations = 12
    MaxPathLen = 12
    Net <- MCNet
    Prods <- MCProds
    Contexts <- MCContexts
    Rank <- MCRank
    DigitValue <- MCDigitValue
    Vowels <- MCVowels
    SavedFiles <- MCSavedFiles
    Punct <- MCPunct
    Subs <- MCSubs
    MaxResets = 1
INVARIANTS TokensAsWritten BestReading InOrder
PROPERTIES UnitsKeepProtocol TextComesOut
CHECK_DEADLOCK FALSE
