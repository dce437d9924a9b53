SPECIFICATION Spec
CONSTANTS
    Windows <- MCWindows
    MaxChains = 5
    KeccakInputs <- MCKeccakInputs
    Pieces <- MCPieces
    Wholes <- MCWholes
    MaxCalls = 2
    ThashSets <- MCThashSets
    MessageSets <- MCMessageSets
    Builds <- MCBuilds
    DigestsOf <- MCDigestsOf
    Damaged <- MCDamaged
    DigitSets <- MCDigitSets
INVARIANTS
    GroupingIsScalar
    KeccakAgrees
    StreamsAreStandard
    HashesAreDefined
    SignatureIsStandard
    OpensWhatWasSigned
    AddressesSeparate
    WorkMatchesSchedule
    DigitsNeverDominate
CHECK_DEADLOCK FALSE
