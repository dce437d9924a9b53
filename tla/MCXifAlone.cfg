CONSTANTS
    Ids <- MCIds
    Instructions <- MCInstructions
SPECIFICATION Spec
INVARIANTS
    RunsOnceAfterCommit
    ResultIsOwn
PROPERTY
    CommittedRetires
