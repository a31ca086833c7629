SPECIFICATION Spec
CONSTANTS
    a1 = a1
    a2 = a2
    Strings <- MCStrings
    Ids <- MCIds
    Protocols <- MCProtocols
    Texts <- MCTexts
    Numerals <- MCNumerals
    Files <- MCFiles
    Unreadable = Unreadable
    Env <- MCEnv
    MaxAntennas = 2
    MaxPending = 2
SYMMETRY Symmetry
INVARIANT UnsavedIsNoticed
INVARIANT NextStartSeesTheSame
PROPERTY SavedAntennasAreTheDraft
PROPERTY FileStaysUsable
