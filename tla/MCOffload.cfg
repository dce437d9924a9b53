CONSTANTS
    ErrorCodes <- MCErrorCodes
    Descriptors <- MCDescriptors
    MaxKills = 2
SPECIFICATION Spec
INVARIANTS
    StartAnswersBusy
    ReportIsOfThisJob
PROPERTY
    ProgramFinishes
