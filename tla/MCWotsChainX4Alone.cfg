CONSTANTS
    Thash <- MCThash
    Blocks = {}
    Jobs <- MCJobs
SPECIFICATION Spec
INVARIANTS
    TypeOK
    RequestIsNextStep
    ChainsAreScalar
    DoneIsEndOfChain
PROPERTY
    JobAnswered
