CONSTANTS
    Vowels <- MCVowels
    MaxUttSyll = 4
    MaxFrames = 6
SPECIFICATION AcousticsSpec
INVARIANTS FeaturesAsCounted PhonesAsMeant SmoothedAsMeant
