CONSTANTS
    Size = 11
    TextSize = 3
    Frame = 1
    Items <- MCItems
    Chars <- MCChars
    Limits <- MCLimits
SPECIFICATION MCSpec
INVARIANT WholeItems
PROPERTY ImplementsFifos
