CONSTANTS
    NumProcUnits = 3
    Cap = 1
    MaxHeld = 1
    MaxReady = 1
    MaxText = 2
    MaxResets = 1
    MayFail = TRUE
SPECIFICATION FairSpec
INVARIANTS NothingStranded IdleMeansDrained
PROPERTY IdleAgainAndAgain
