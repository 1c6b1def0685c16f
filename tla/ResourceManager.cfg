CONSTANTS
    h1 = h1 h2 = h2 h3 = h3
    ta = ta sg = sg def = def long = long
    Handles = {h1, h2, h3}
    Names <- MCNames
    DefaultName = def
    LongNames = {long}
    Truncated <- MCTruncated
    VoiceNames = {"v", "w"}
    LongVoiceNames = {"toolong"}
    KbIds = {"ids", "lex", "pdf"}
    KbsOf <- MCKbsOf
    None = None
    MaxResources = 3
    MaxVdefs = 1
    MaxPerVoice = 3
    MaxOpen = 2
SYMMETRY Symmetric
SPECIFICATION Spec
INVARIANTS LocksMatch VoiceIsLoaded NamesUnique
PROPERTY UnloadIffUnused
